---------------------------- MODULE Spec2Model ----------------------------
(***************************************************************************)
(* VSIX repackaging subsystem of the DevSecOps scripts.                    *)
(*                                                                         *)
(*   fix_github_extensions.py   process_extension and its four strategies  *)
(*   update_vsix_engine.py      process_vsix_file                          *)
(*   update_package_json        the manifest patcher both scripts share    *)
(*   parallel_install_extensions.py                                        *)
(*                              is_gzipped, extract_vsix and               *)
(*                              distribute_extensions                      *)
(*                                                                         *)
(* One run of the model is one invocation of one of these on one input, a  *)
(* batch of one of the two scripts from its main on, or two invocations in *)
(* two processes: `script` says which.                                     *)
(*                                                                         *)
(* The environment may fail where the pipelines touch the disk or run a    *)
(* tool: a write into a ZIP being built, a copy onto vsix_path, the        *)
(* creation of a temporary directory, a missing or failing unzip, zip or   *)
(* vsce.  `faults` counts the I/O errors raised.  Writes to the two ledger *)
(* files and to stdout are taken to succeed, so the except clause of       *)
(* process_extension (lines 310-318), which only they can reach, has no    *)
(* action here.                                                            *)
(***************************************************************************)
EXTENDS Integers, Sequences, FiniteSets, TLC

VARIABLES
    script,             \* which program this run is: "fix", "upd", "patch",
                        \* "extract" (extract_vsix of the installer),
                        \* a batch: "fixes" (process_extensions), "updates" (main),
                        \* "par": two invocations in two processes,
                        \* or "mpi": the ranks of the parallel installer
    pc,                 \* position inside the running function
    archive,            \* bytes of the file at vsix_path
    archive0,           \* the bytes vsix_path had when the run started
    tools,              \* external commands installed on the system
    faults,             \* I/O errors the environment has raised so far
    tempDirs,           \* temporary directories that exist
    extraction,         \* files under the current extraction_dir
    tmpFile,            \* replacement archive being built under a temp dir
    package_json_path,  \* local: result of find_package_json
    success,            \* local: first component of update_package_json's result
    original,           \* local: second component (original_version)
    mi,                 \* process_extension: index into methods
    attempts,           \* process_extension: methods run so far and their results
    successLog,         \* lines appended to SUCCESS_LOG
    failedLog,          \* lines appended to FAILED_LOG
    counters,           \* the scripts' global counters
    ret,                \* what the invocation returned
    cwd,                \* process working directory
    is_gzipped,         \* process_vsix_file: local flag
    wrote,              \* whether this attempt has opened vsix_path for writing
    pj,                 \* "patch" runs: the manifest file under test
    pjTarget,           \* "patch" runs: target_version argument
    pjCalls,            \* "patch" runs: results of the calls made so far
    vsix_files,         \* batch runs: the selected list, as the files' bytes
    bi,                 \* batch runs: position of the loop in vsix_files
    calls,              \* batch runs: positions the processing function was called on
    procs,              \* concurrent runs: the state of each process
    tmpfs,              \* concurrent runs: the temporary directories, by name
    backup_exists,      \* batch runs: whether BACKUP_DIR exists
    response            \* batch runs: what the operator typed at the prompt

vars == << script, pc, archive, archive0, tools, faults, tempDirs, extraction,
           tmpFile, package_json_path, success, original, mi, attempts,
           successLog, failedLog, counters, ret, cwd, is_gzipped, wrote,
           pj, pjTarget, pjCalls, vsix_files, bi, calls, procs, tmpfs,
           backup_exists, response >>

(***************************************************************************)
(* Bounds of the model.                                                    *)
(***************************************************************************)
MaxFaults == 2
MaxCalls == 2
MaxBatch == 2
MaxExtensions == 5
MaxRanks == 3

(***************************************************************************)
(* JSON values.  A value is a null, a string, a one-element list or an     *)
(* object; an object is a sequence of <<key, value>> pairs in document     *)
(* order, as the text of a file may repeat a key.                          *)
(***************************************************************************)
Null == [t |-> "null", s |-> "", m |-> << >>]
Str(x) == [t |-> "str", s |-> x, m |-> << >>]
Arr(x) == [t |-> "arr", s |-> x, m |-> << >>]
Obj(pairs) == [t |-> "obj", s |-> "", m |-> pairs]

None == Null

Keys(pairs) == { pairs[i][1] : i \in 1..Len(pairs) }

\* d[k] of a dict: the value of the last pair with key k
Get(pairs, k) ==
    pairs[CHOOSE i \in 1..Len(pairs) :
              /\ pairs[i][1] = k
              /\ \A j \in (i+1)..Len(pairs) : pairs[j][1] # k][2]

\* d[k] = v of a dict: an existing key keeps its place, a new key goes last
Put(pairs, k, v) ==
    IF k \in Keys(pairs)
    THEN [i \in 1..Len(pairs) |-> IF pairs[i][1] = k THEN <<k, v>> ELSE pairs[i]]
    ELSE Append(pairs, <<k, v>>)

\* json.load of an object's text: pairs are inserted left to right
RECURSIVE JsonParse(_)
RECURSIVE ParsePairs(_, _)
ParsePairs(pairs, acc) ==
    IF pairs = << >> THEN acc
    ELSE ParsePairs(Tail(pairs),
                    Put(acc, Head(pairs)[1], JsonParse(Head(pairs)[2])))
JsonParse(v) == IF v.t = "obj" THEN Obj(ParsePairs(v.m, << >>)) ELSE v

\* a file's content: `ok` says whether it is JSON text, `style` how it is laid out
Blob == [ok |-> FALSE, style |-> "bin", doc |-> Null]
Text(style, v) == [ok |-> TRUE, style |-> style, doc |-> v]

\* json.dump(data, f, indent=2)
JsonDump(data) == Text("indent2", data)

\* parsed content of a file (Blob when json.load raises)
Parsed(file) == IF file.ok THEN JsonParse(file.doc) ELSE Null

\* content of two parsed documents is equal as Python compares dicts
RECURSIVE SameDoc(_, _)
SameDoc(a, b) ==
    IF a.t = "obj" /\ b.t = "obj"
    THEN /\ Keys(a.m) = Keys(b.m)
         /\ \A k \in Keys(a.m) : SameDoc(Get(a.m, k), Get(b.m, k))
    ELSE a = b

\* Python's `k in v`: "TypeError" where the operand does not support it
StrContains(s, k) == s = k \/ s = k \o "-insiders"
PyIn(k, v) ==
    CASE v.t = "obj" -> IF k \in Keys(v.m) THEN "True" ELSE "False"
      [] v.t = "arr" -> IF v.s = k THEN "True" ELSE "False"
      [] v.t = "str" -> IF StrContains(v.s, k) THEN "True" ELSE "False"
      [] OTHER -> "TypeError"

TargetVersion == "^1.99.0"

\* return False, None, None from the except clause; the file was only read
\* (FailedAfterOpen: as if the file had been opened for writing first)
FailedAfterOpen(file) ==
    [ok |-> FALSE, original |-> None, new |-> None,
     file |-> [ok |-> FALSE, style |-> "empty", doc |-> Null]]
Failed(file) == [ok |-> FALSE, original |-> None, new |-> None, file |-> file]

\* original_version: lines 73-75
OriginalVersionTypo(data) == None
OriginalVersion(data) ==
    IF PyIn("engines", data) = "True"
       /\ PyIn("vscode", Get(data.m, "engines")) = "True"
    THEN Get(Get(data.m, "engines").m, "vscode")
    ELSE None

\* data["engines"]["vscode"] = target_version, after creating engines: lines 78-80
SetEngineReplacesObject(data, target) ==
    Obj(Put(data.m, "engines", Obj(<< <<"vscode", Str(target)>> >>)))
SetEngine(data, target) ==
    LET withEngines == IF "engines" \in Keys(data.m) THEN data.m
                       ELSE Put(data.m, "engines", Obj(<< >>))
    IN  Obj(Put(withEngines, "engines",
                Obj(Put(Get(withEngines, "engines").m, "vscode", Str(target)))))

\* whether lines 73-80 raise TypeError on the parsed document
Raises(data) ==
    \/ PyIn("engines", data) = "TypeError"
    \/ data.t # "obj"
    \/ /\ "engines" \in Keys(data.m)
       /\ Get(data.m, "engines").t # "obj"

\* update_package_json(package_json_path, target_version) on a file's content:
\* the returned triple and the content the file has afterwards
update_package_json(file, target) ==
    IF ~file.ok THEN Failed(file)
    ELSE LET data == JsonParse(file.doc) IN
         IF Raises(data) THEN Failed(file)
         ELSE [ok |-> TRUE,
               original |-> OriginalVersion(data),
               new |-> Str(target),
               file |-> JsonDump(SetEngine(data, target))]

(***************************************************************************)
(* Manifests the runs draw from.                                           *)
(***************************************************************************)
NamePair == <<"name", Str("ext")>>
EngineValues ==
    { Obj(<< >>),
      Obj(<< <<"vscode", Str("^1.0.0")>> >>),
      Obj(<< <<"vscode", Str("^1.99.0")>> >>),
      Obj(<< <<"node", Str(">=14")>>, <<"vscode", Str("^1.0.0")>> >>),
      Obj(<< <<"vscode", Str("^1.0.0")>>, <<"node", Str(">=14")>> >>),
      Obj(<< <<"vscode", Str("^1.0.0")>>, <<"vscode", Str("^1.50.0")>> >>),
      Obj(<< <<"vscode", Null>> >>),
      Str("vscode"), Str("vscode-insiders"), Str("x"),
      Arr("vscode"), Arr("x"), Null }
Documents ==
    { Obj(<< NamePair >>), Obj(<< >>),
      Obj(<< NamePair, <<"name", Str("ext2")>> >>),
      Arr("engines"), Arr("x"), Str("engines"), Str("x"), Null }
    \cup { Obj(<< NamePair, <<"engines", e>> >>) : e \in EngineValues }
    \cup { Obj(<< <<"engines", e>>, NamePair >>) : e \in EngineValues }
    \cup { Obj(<< <<"engines", Str("x")>>, <<"engines", e>> >>) : e \in EngineValues }
ManifestFiles ==
    { Blob } \cup { Text(st, d) : st \in {"compact", "indent2"}, d \in Documents }
Targets == { TargetVersion, "^1.0.0" }

(***************************************************************************)
(* Files and directory trees.  A tree maps entry names to file contents.   *)
(* An archive file is a ZIP container ("zip"), a ZIP container that was    *)
(* opened for writing and never closed ("trunc": no central directory) or  *)
(* other bytes ("garbage"), possibly inside a gzip stream (gz = "ok"), or  *)
(* bytes that start with the gzip magic number and do not decompress       *)
(* (gz = "bad").  A "zipx" container is a ZIP whose entries use a          *)
(* compression method the unzip tool reads and Python's zipfile does not.  *)
(***************************************************************************)
EmptyTree == << >>
NoFile == [gz |-> "no", body |-> "absent", entries |-> EmptyTree]
Zip(tree) == [gz |-> "no", body |-> "zip", entries |-> tree]
Trunc(tree) == [gz |-> "no", body |-> "trunc", entries |-> tree]
Zipx(tree) == [gz |-> "no", body |-> "zipx", entries |-> tree]
Gzip(file) == [file EXCEPT !.gz = "ok"]
Garbage == [gz |-> "no", body |-> "garbage", entries |-> EmptyTree]
BadGzip == [gz |-> "bad", body |-> "garbage", entries |-> EmptyTree]

\* zipfile.ZipFile(path, 'r') and its extractall succeed
IsZip(file) == file.gz = "no" /\ file.body = "zip"
\* zipfile.ZipFile(path, 'r') succeeds and extractall raises NotImplementedError
IsUnsupportedZip(file) == file.gz = "no" /\ file.body = "zipx"
\* unzip exits with 0
UnzipReads(file) == file.gz = "no" /\ file.body \in {"zip", "zipx"}
\* what a file holds when a copy to it stops part way
Partial(file) == IF file.gz = "ok"
                 THEN [gz |-> "bad", body |-> "garbage", entries |-> << >>]
                 ELSE [gz |-> "no", body |-> "trunc", entries |-> << >>]
\* gzip.open(path).read() succeeds, and what it yields
Gunzip(file) == [file EXCEPT !.gz = "no"]

ManifestName == "package.json"
VsixManifestName == "extension.vsixmanifest"
NestedManifest == "extension/package.json"
TraversalName == "../evil.js"
AbsoluteName == "/abs.js"

\* the name ZipFile.extractall and unzip give an entry on disk: parent
\* traversal segments and a leading separator are dropped
Sanitize(name) ==
    CASE name = TraversalName -> "evil.js"
      [] name = AbsoluteName -> "abs.js"
      [] OTHER -> name

\* ZipFile.extractall(extraction_dir) / unzip -d extraction_dir
ExtractAll(entries) ==
    [n \in { Sanitize(m) : m \in DOMAIN entries } |->
        entries[CHOOSE m \in DOMAIN entries : Sanitize(m) = n]]

\* os.walk(directory): the files of the root directory, then those of its
\* subdirectories
WalkOrder == << ManifestName, VsixManifestName, "evil.js", "abs.js",
               NestedManifest >>
Walk(tree) == SelectSeq(WalkOrder, LAMBDA n : n \in DOMAIN tree)

BaseName(n) == IF n = NestedManifest THEN ManifestName ELSE n

\* find_package_json(directory): first match of the walk, or "None"
\* (FindLast: the last match instead)
FindLast(tree) ==
    LET hits == SelectSeq(Walk(tree), LAMBDA n : BaseName(n) = ManifestName)
    IN  IF hits = << >> THEN "None" ELSE hits[Len(hits)]
find_package_json(tree) ==
    LET hits == SelectSeq(Walk(tree), LAMBDA n : BaseName(n) = ManifestName)
    IN  IF hits = << >> THEN "None" ELSE Head(hits)

\* file_path = os.path.join(root, file) of a file the walk of `directory`
\* yields: the directory walked and the file's path below it
file_path(directory, n) == << directory, n >>

\* os.path.relpath(path, start)
\* (relpathFromParent: the path as seen from the directory above `start`)
relpathFromParent(path, start) == "../" \o path[1] \o "/" \o path[2]
relpath(path, start) ==
    IF path[1] = start THEN path[2] ELSE "../" \o path[1] \o "/" \o path[2]

ExtractionDir == "extraction_dir"

\* arcname = os.path.relpath(file_path, extraction_dir)
arcname(n) == relpath(file_path(ExtractionDir, n), ExtractionDir)

\* the entries of a ZIP written from the walk of extraction_dir:
\* zip_out.write(file_path, arcname) for every file
Repackaged(tree) ==
    [a \in { arcname(n) : n \in DOMAIN tree } |->
        tree[CHOOSE n \in DOMAIN tree : arcname(n) = a]]

\* the tree with one more file written
WithFile(tree, n, content) ==
    [x \in DOMAIN tree \cup {n} |-> IF x = n THEN content ELSE tree[x]]

\* the first file of the walk that a ZIP being written does not hold yet
NextToWrite(tree, written) ==
    Head(SelectSeq(Walk(tree), LAMBDA n : arcname(n) \notin DOMAIN written))

(***************************************************************************)
(* Input archives.                                                         *)
(***************************************************************************)
RootManifests ==
    { Blob,
      Text("compact", Obj(<< NamePair >>)),
      Text("compact", Obj(<< NamePair, <<"engines", Obj(<< <<"vscode", Str("^1.0.0")>> >>)>> >>)),
      Text("compact", Obj(<< NamePair, <<"engines", Str("x")>> >>)) }
NestedManifests ==
    { Blob,
      Text("compact", Obj(<< <<"engines", Obj(<< <<"node", Str(">=14")>>, <<"vscode", Str("^1.50.0")>> >>)>> >>)) }

Choices(n) ==
    CASE n = ManifestName -> RootManifests
      [] n = NestedManifest -> NestedManifests
      [] OTHER -> { Blob }
InputNames == { ManifestName, VsixManifestName, NestedManifest, TraversalName,
                AbsoluteName }
InputTrees ==
    UNION { { t \in [names -> RootManifests \cup NestedManifests] :
                \A n \in names : t[n] \in Choices(n) } : names \in SUBSET InputNames }
InputArchives ==
    { Zip(t) : t \in InputTrees } \cup { Gzip(Zip(t)) : t \in InputTrees }
    \cup { Zipx(t) : t \in InputTrees }
    \cup { Garbage, Gzip(Garbage), BadGzip, Trunc(EmptyTree) }

ToolSets == SUBSET { "unzip", "zip", "vsce" }

\* extension_name = os.path.basename(vsix_path): the archive of a single
\* invocation, or the bi-th of a batch
extension_name ==
    IF bi <= 1 THEN "pub.ext-1.0.0.vsix"
    ELSE "pub.ext-1.0." \o ToString(bi - 1) \o ".vsix"

\* process_extension's methods list: lines 277-282
methods == << "Standard ZIP", "Manual unzip", "VSCE tool", "GitHub specific" >>

ZeroCounters ==
    [total_extensions |-> 1, processed_extensions |-> 0,
     successful_fixes |-> 0, failed_fixes |-> 0,
     successful_updates |-> 0, failed_updates |-> 0, skipped_extensions |-> 0]

Bump(c, field) == [c EXCEPT ![field] = @ + 1]

InitCommon ==
    /\ archive0 = archive
    /\ faults = 0
    /\ tempDirs = {}
    /\ extraction = EmptyTree
    /\ tmpFile = NoFile
    /\ package_json_path = "None"
    /\ success = FALSE
    /\ original = None
    /\ mi = 0
    /\ attempts = << >>
    /\ successLog = << >>
    /\ failedLog = << >>
    /\ counters = ZeroCounters
    /\ ret = "none"
    /\ cwd = "start"
    /\ is_gzipped = FALSE
    /\ wrote = FALSE

InitFix ==
    /\ script = "fix"
    /\ pc = "fx_start"
    /\ archive \in InputArchives
    /\ tools \in ToolSets
    /\ pj = Blob /\ pjTarget = TargetVersion /\ pjCalls = << >>
    /\ vsix_files = << >> /\ bi = 0 /\ calls = << >>
    /\ procs = << >> /\ tmpfs = << >>
    /\ backup_exists = TRUE /\ response = ""
    /\ InitCommon

FaultAllowed == faults < MaxFaults

(***************************************************************************)
(* Steps the four strategies share.  `here` and `next` are positions.      *)
(***************************************************************************)
\* return False, None, None
ReturnFailure ==
    /\ success' = FALSE
    /\ original' = None
    /\ pc' = "fx_ret"

\* where a strategy goes after update_package_json returned `ok`
AfterPatchIgnoresResult(ok, next, fail) == next
AfterPatch(ok, next, fail) == IF ok THEN next ELSE fail

\* package_json_path = find_package_json(extraction_dir); if package_json_path:
Locate(here, next) ==
    /\ pc = here
    /\ package_json_path' = find_package_json(extraction)
    /\ IF package_json_path' # "None"
       THEN pc' = next /\ UNCHANGED << success, original >>
       ELSE ReturnFailure
    /\ UNCHANGED << script, archive, archive0, tools, faults, tempDirs, extraction,
                    tmpFile, mi, attempts, successLog, failedLog, counters, ret,
                    cwd, is_gzipped, wrote, pj, pjTarget, pjCalls, vsix_files, bi, calls, procs, tmpfs, backup_exists, response >>

\* success, original, new = update_package_json(package_json_path); if success:
Patch(here, next, fail) ==
    /\ pc = here
    /\ LET r == update_package_json(extraction[package_json_path], TargetVersion)
       IN  /\ extraction' = [extraction EXCEPT ![package_json_path] = r.file]
           /\ success' = r.ok
           /\ original' = r.original
           /\ pc' = AfterPatch(r.ok, next, fail)
    /\ UNCHANGED << script, archive, archive0, tools, faults, tempDirs, tmpFile,
                    package_json_path, mi, attempts, successLog, failedLog,
                    counters, ret, cwd, is_gzipped, wrote, pj, pjTarget, pjCalls, vsix_files, bi, calls, procs, tmpfs, backup_exists, response >>

\* zipfile.ZipFile(vsix_path, 'w', ...): the file at vsix_path is truncated
OpenForWrite(here, next) ==
    /\ pc = here
    /\ archive' = Trunc(EmptyTree)
    /\ wrote' = TRUE
    /\ pc' = next
    /\ UNCHANGED << script, archive0, tools, faults, tempDirs, extraction, tmpFile,
                    package_json_path, success, original, mi, attempts, successLog,
                    failedLog, counters, ret, cwd, is_gzipped, pj, pjTarget, pjCalls, vsix_files, bi, calls, procs, tmpfs, backup_exists, response >>

AllWritten == DOMAIN archive.entries = { arcname(n) : n \in DOMAIN extraction }

\* zip_out.write(file_path, arcname) for the next file of the walk
WriteEntry(here) ==
    /\ pc = here
    /\ ~AllWritten
    /\ LET n == NextToWrite(extraction, archive.entries)
       IN  archive' = Trunc(WithFile(archive.entries, arcname(n), extraction[n]))
    /\ UNCHANGED << script, pc, archive0, tools, faults, tempDirs, extraction,
                    tmpFile, package_json_path, success, original, mi, attempts,
                    successLog, failedLog, counters, ret, cwd, is_gzipped, wrote,
                    pj, pjTarget, pjCalls, vsix_files, bi, calls, procs, tmpfs, backup_exists, response >>

\* the with block ends: ZipFile.close() writes the central directory;
\* return True, original, new
CloseZip(here) ==
    /\ pc = here
    /\ AllWritten
    /\ archive' = Zip(archive.entries)
    /\ pc' = "fx_ret"
    /\ UNCHANGED << script, archive0, tools, faults, tempDirs, extraction, tmpFile,
                    package_json_path, success, original, mi, attempts, successLog,
                    failedLog, counters, ret, cwd, is_gzipped, wrote, pj, pjTarget,
                    pjCalls, vsix_files, bi, calls, procs, tmpfs, backup_exists, response >>

\* zip_out.write raises (disk full, unreadable file): the with block's exit
\* closes the ZIP over the entries written so far if it still can, and the
\* strategy's except clause returns False, None, None
WriteFault(here) ==
    /\ pc = here
    /\ ~AllWritten
    /\ FaultAllowed
    /\ faults' = faults + 1
    /\ \E closed \in BOOLEAN :
          archive' = IF closed THEN Zip(archive.entries) ELSE archive
    /\ ReturnFailure
    /\ UNCHANGED << script, archive0, tools, tempDirs, extraction, tmpFile,
                    package_json_path, mi, attempts, successLog, failedLog,
                    counters, ret, cwd, is_gzipped, wrote, pj, pjTarget, pjCalls, vsix_files, bi, calls, procs, tmpfs, backup_exists, response >>

\* subprocess.run(["unzip", "-q", "-o", vsix_path, "-d", extraction_dir]):
\* FileNotFoundError when unzip is not installed, a non-zero exit when the
\* file is no ZIP; both end the strategy with False, None, None
\* (RunUnzipUnchecked: without the test of result.returncode)
RunUnzipUnchecked(here, next) ==
    /\ pc = here
    /\ IF "unzip" \in tools
       THEN /\ extraction' = IF UnzipReads(archive) THEN ExtractAll(archive.entries)
                              ELSE EmptyTree
            /\ pc' = next
            /\ UNCHANGED << success, original >>
       ELSE /\ ReturnFailure
            /\ UNCHANGED extraction
    /\ UNCHANGED << script, archive, archive0, tools, faults, tempDirs, tmpFile,
                    package_json_path, mi, attempts, successLog, failedLog,
                    counters, ret, cwd, is_gzipped, wrote, pj, pjTarget, pjCalls,
                    vsix_files, bi, calls, procs, tmpfs, backup_exists, response >>
RunUnzip(here, next) ==
    /\ pc = here
    /\ IF "unzip" \in tools /\ UnzipReads(archive)
       THEN /\ extraction' = ExtractAll(archive.entries)
            /\ pc' = next
            /\ UNCHANGED << success, original >>
       ELSE /\ ReturnFailure
            /\ UNCHANGED extraction
    /\ UNCHANGED << script, archive, archive0, tools, faults, tempDirs, tmpFile,
                    package_json_path, mi, attempts, successLog, failedLog,
                    counters, ret, cwd, is_gzipped, wrote, pj, pjTarget, pjCalls, vsix_files, bi, calls, procs, tmpfs, backup_exists, response >>

\* os.chdir(extraction_dir); subprocess.run(["zip", "-q", "-r", repacked, "."]);
\* os.chdir(current_dir).  When zip is not installed subprocess.run raises
\* and the second chdir is not reached.
RunZip(here, next) ==
    /\ pc = here
    /\ IF "zip" \in tools
       THEN /\ tmpFile' = Zip(extraction)
            /\ pc' = next
            /\ UNCHANGED << cwd, success, original >>
       ELSE /\ cwd' = "extraction_dir"
            /\ ReturnFailure
            /\ UNCHANGED tmpFile
    /\ UNCHANGED << script, archive, archive0, tools, faults, tempDirs, extraction,
                    package_json_path, mi, attempts, successLog, failedLog,
                    counters, ret, is_gzipped, wrote, pj, pjTarget, pjCalls, vsix_files, bi, calls, procs, tmpfs, backup_exists, response >>

\* zip exits with a non-zero code: result.returncode != 0
RunZipFault(here) ==
    /\ pc = here
    /\ "zip" \in tools
    /\ FaultAllowed
    /\ faults' = faults + 1
    /\ ReturnFailure
    /\ UNCHANGED << script, archive, archive0, tools, tempDirs, extraction, tmpFile,
                    package_json_path, mi, attempts, successLog, failedLog,
                    counters, ret, cwd, is_gzipped, wrote, pj, pjTarget, pjCalls, vsix_files, bi, calls, procs, tmpfs, backup_exists, response >>

\* shutil.copy2(repacked, vsix_path) opens vsix_path for writing ...
CopyOpen(here, next) ==
    /\ pc = here
    /\ archive' = Partial(tmpFile)
    /\ wrote' = TRUE
    /\ pc' = next
    /\ UNCHANGED << script, archive0, tools, faults, tempDirs, extraction, tmpFile,
                    package_json_path, success, original, mi, attempts, successLog,
                    failedLog, counters, ret, cwd, is_gzipped, pj, pjTarget, pjCalls, vsix_files, bi, calls, procs, tmpfs, backup_exists, response >>

\* ... and copies the bytes; return True, original, new
CopyDone(here) ==
    /\ pc = here
    /\ archive' = tmpFile
    /\ pc' = "fx_ret"
    /\ UNCHANGED << script, archive0, tools, faults, tempDirs, extraction, tmpFile,
                    package_json_path, success, original, mi, attempts, successLog,
                    failedLog, counters, ret, cwd, is_gzipped, wrote, pj, pjTarget,
                    pjCalls, vsix_files, bi, calls, procs, tmpfs, backup_exists, response >>

\* ... or raises part way (disk full)
CopyFault(here) ==
    /\ pc = here
    /\ FaultAllowed
    /\ faults' = faults + 1
    /\ ReturnFailure
    /\ UNCHANGED << script, archive, archive0, tools, tempDirs, extraction, tmpFile,
                    package_json_path, mi, attempts, successLog, failedLog,
                    counters, ret, cwd, is_gzipped, wrote, pj, pjTarget, pjCalls, vsix_files, bi, calls, procs, tmpfs, backup_exists, response >>

(***************************************************************************)
(* fix_github_extensions.py: process_extension(vsix_path).                 *)
(***************************************************************************)
FixTemp == "github_ext_fix_"

\* temp_dir = tempfile.mkdtemp(prefix="github_ext_fix_")
FxStart ==
    /\ pc = "fx_start"
    /\ tempDirs' = tempDirs \cup { FixTemp }
    /\ mi' = 1
    /\ pc' = "fx_try"
    /\ UNCHANGED << script, archive, archive0, tools, faults, extraction, tmpFile,
                    package_json_path, success, original, attempts, successLog,
                    failedLog, counters, ret, cwd, is_gzipped, wrote, pj, pjTarget,
                    pjCalls, vsix_files, bi, calls, procs, tmpfs, backup_exists, response >>

MethodEntry == << "dz_extract", "uz_unzip", "vs_probe", "gh_open" >>

\* for method_name, method_func in methods: ... method_func(vsix_path, temp_dir)
FxTry ==
    /\ pc = "fx_try"
    /\ attempts' = Append(attempts, [method |-> methods[mi], ok |-> "running"])
    /\ extraction' = EmptyTree
    /\ package_json_path' = "None"
    /\ success' = FALSE
    /\ original' = None
    /\ wrote' = FALSE
    /\ pc' = MethodEntry[mi]
    /\ UNCHANGED << script, archive, archive0, tools, faults, tempDirs, tmpFile, mi,
                    successLog, failedLog, counters, ret, cwd, is_gzipped, pj,
                    pjTarget, pjCalls, vsix_files, bi, calls, procs, tmpfs, backup_exists, response >>

\* the loop after a method returned `ok`: return on success, else the next
\* method, else fall out of the loop
\* (LoopNextNoReturn: without the return; LoopNextNoExit: the last method is
\* tried again instead of leaving the loop)
LoopNextNoReturn(ok, i) ==
    IF i < Len(methods) THEN [pc |-> "fx_try", mi |-> i + 1]
    ELSE [pc |-> IF ok THEN "fx_success" ELSE "fx_exhausted", mi |-> i]
LoopNextNoExit(ok, i) ==
    IF ok THEN [pc |-> "fx_success", mi |-> i]
    ELSE IF i < Len(methods) THEN [pc |-> "fx_try", mi |-> i + 1]
    ELSE [pc |-> "fx_try", mi |-> i]
LoopNext(ok, i) ==
    IF ok THEN [pc |-> "fx_success", mi |-> i]
    ELSE IF i < Len(methods) THEN [pc |-> "fx_try", mi |-> i + 1]
    ELSE [pc |-> "fx_exhausted", mi |-> i]

\* success, original, new = method_func(vsix_path, temp_dir); if success:
FxReturn ==
    /\ pc = "fx_ret"
    /\ attempts' = [attempts EXCEPT ![Len(attempts)].ok =
                       IF success THEN "True" ELSE "False"]
    /\ pc' = LoopNext(success, mi).pc
    /\ mi' = LoopNext(success, mi).mi
    /\ UNCHANGED << script, archive, archive0, tools, faults, tempDirs, extraction,
                    tmpFile, package_json_path, success, original, successLog,
                    failedLog, counters, ret, cwd, is_gzipped, wrote, pj, pjTarget,
                    pjCalls, vsix_files, bi, calls, procs, tmpfs, backup_exists, response >>

\* the line written to SUCCESS_LOG
SuccessLineFirstMethod(name, old, new, i) ==
    [name |-> name, original |-> old, new |-> new, method |-> methods[1]]
SuccessLine(name, old, new, i) ==
    [name |-> name, original |-> old, new |-> new, method |-> methods[i]]

FailureLine(name, msg) == [name |-> name, msg |-> msg]

\* lines 288-298
FxSuccess ==
    /\ pc = "fx_success"
    /\ successLog' = Append(successLog,
                            SuccessLine(extension_name, original,
                                        Str(TargetVersion), mi))
    /\ counters' = Bump(Bump(counters, "successful_fixes"), "processed_extensions")
    /\ ret' = "True"
    /\ pc' = "fx_cleanup"
    /\ UNCHANGED << script, archive, archive0, tools, faults, tempDirs, extraction,
                    tmpFile, package_json_path, success, original, mi, attempts,
                    failedLog, cwd, is_gzipped, wrote, pj, pjTarget, pjCalls, vsix_files, bi, calls, procs, tmpfs, backup_exists, response >>

\* lines 300-308
\* (FxExhaustedAsSuccess: the same lines counting the archive as fixed)
FxExhaustedAsSuccess ==
    /\ pc = "fx_exhausted"
    /\ failedLog' = Append(failedLog, FailureLine(extension_name, "All methods failed"))
    /\ counters' = Bump(Bump(counters, "successful_fixes"), "processed_extensions")
    /\ ret' = "False"
    /\ pc' = "fx_cleanup"
    /\ UNCHANGED << script, archive, archive0, tools, faults, tempDirs, extraction,
                    tmpFile, package_json_path, success, original, mi, attempts,
                    successLog, cwd, is_gzipped, wrote, pj, pjTarget, pjCalls, vsix_files, bi, calls, procs, tmpfs, backup_exists, response >>
FxExhausted ==
    /\ pc = "fx_exhausted"
    /\ failedLog' = Append(failedLog, FailureLine(extension_name, "All methods failed"))
    /\ counters' = Bump(Bump(counters, "failed_fixes"), "processed_extensions")
    /\ ret' = "False"
    /\ pc' = "fx_cleanup"
    /\ UNCHANGED << script, archive, archive0, tools, faults, tempDirs, extraction,
                    tmpFile, package_json_path, success, original, mi, attempts,
                    successLog, cwd, is_gzipped, wrote, pj, pjTarget, pjCalls, vsix_files, bi, calls, procs, tmpfs, backup_exists, response >>

\* finally: shutil.rmtree(temp_dir, ignore_errors=True)
FxCleanup ==
    /\ pc = "fx_cleanup"
    /\ tempDirs' = tempDirs \ { FixTemp }
    /\ extraction' = EmptyTree
    /\ tmpFile' = NoFile
    /\ pc' = "done"
    /\ UNCHANGED << script, archive, archive0, tools, faults, package_json_path,
                    success, original, mi, attempts, successLog, failedLog,
                    counters, ret, cwd, is_gzipped, wrote, pj, pjTarget, pjCalls, vsix_files, bi, calls, procs, tmpfs, backup_exists, response >>

(* try_direct_zip_method *)
\* zipfile.ZipFile(vsix_path, 'r').extractall(extraction_dir); BadZipFile is
\* caught by the method's except clause
DirectZipExtract ==
    /\ pc = "dz_extract"
    /\ IF IsZip(archive)
       THEN /\ extraction' = ExtractAll(archive.entries)
            /\ pc' = "dz_find"
            /\ UNCHANGED << success, original >>
       ELSE /\ ReturnFailure
            /\ UNCHANGED extraction
    /\ UNCHANGED << script, archive, archive0, tools, faults, tempDirs, tmpFile,
                    package_json_path, mi, attempts, successLog, failedLog,
                    counters, ret, cwd, is_gzipped, wrote, pj, pjTarget, pjCalls, vsix_files, bi, calls, procs, tmpfs, backup_exists, response >>
DirectZipFind == Locate("dz_find", "dz_patch")
DirectZipPatch == Patch("dz_patch", "dz_open", "fx_ret")
DirectZipOpen == OpenForWrite("dz_open", "dz_write")
DirectZipWrite == WriteEntry("dz_write")
DirectZipClose == CloseZip("dz_write")
DirectZipWriteFault == WriteFault("dz_write")

(* try_unzip_manually *)
UnzipExtract == RunUnzip("uz_unzip", "uz_find")
UnzipFind == Locate("uz_find", "uz_patch")
UnzipPatch == Patch("uz_patch", "uz_zip", "fx_ret")
UnzipRepack == RunZip("uz_zip", "uz_copy")
UnzipRepackFault == RunZipFault("uz_zip")
UnzipCopy == CopyOpen("uz_copy", "uz_copying")
UnzipCopyDone == CopyDone("uz_copying")
UnzipCopyFault == CopyFault("uz_copying")

(* try_vsce_method *)
\* subprocess.run(["command", "-v", "vsce"], shell=True): the exit code is
\* the shell's, whether or not vsce is installed
VsceProbe ==
    /\ pc = "vs_probe"
    /\ \E returncode \in {0, 1} :
          IF returncode # 0
          THEN ReturnFailure
          ELSE pc' = "vs_ls" /\ UNCHANGED << success, original >>
    /\ UNCHANGED << script, archive, archive0, tools, faults, tempDirs, extraction,
                    tmpFile, package_json_path, mi, attempts, successLog, failedLog,
                    counters, ret, cwd, is_gzipped, wrote, pj, pjTarget, pjCalls, vsix_files, bi, calls, procs, tmpfs, backup_exists, response >>

\* subprocess.run(["vsce", "ls", vsix_path]): FileNotFoundError when vsce is
\* not installed, else its exit code
VsceLs ==
    /\ pc = "vs_ls"
    /\ \E returncode \in {0, 1} :
          IF "vsce" \notin tools \/ returncode # 0
          THEN ReturnFailure
          ELSE pc' = "vs_unzip" /\ UNCHANGED << success, original >>
    /\ UNCHANGED << script, archive, archive0, tools, faults, tempDirs, extraction,
                    tmpFile, package_json_path, mi, attempts, successLog, failedLog,
                    counters, ret, cwd, is_gzipped, wrote, pj, pjTarget, pjCalls, vsix_files, bi, calls, procs, tmpfs, backup_exists, response >>
VsceUnzip == RunUnzip("vs_unzip", "vs_find")
VsceFind == Locate("vs_find", "vs_patch")
VscePatch == Patch("vs_patch", "vs_zip", "fx_ret")
VsceRepack == RunZip("vs_zip", "vs_copy")
VsceRepackFault == RunZipFault("vs_zip")
VsceCopy == CopyOpen("vs_copy", "vs_copying")
VsceCopyDone == CopyDone("vs_copying")
VsceCopyFault == CopyFault("vs_copying")

(* try_github_specific_format *)
\* zip_ref.namelist(); if 'extension.vsixmanifest' in zip_contents:
\* zip_ref.extractall(extraction_dir)
\* (GithubOpenAnyZip: without the test of the name list)
GithubOpenAnyZip ==
    /\ pc = "gh_open"
    /\ IF IsZip(archive)
       THEN /\ extraction' = ExtractAll(archive.entries)
            /\ pc' = "gh_find"
            /\ UNCHANGED << success, original >>
       ELSE /\ ReturnFailure
            /\ UNCHANGED extraction
    /\ UNCHANGED << script, archive, archive0, tools, faults, tempDirs, tmpFile,
                    package_json_path, mi, attempts, successLog, failedLog,
                    counters, ret, cwd, is_gzipped, wrote, pj, pjTarget, pjCalls,
                    vsix_files, bi, calls, procs, tmpfs, backup_exists, response >>
GithubOpen ==
    /\ pc = "gh_open"
    /\ IF IsZip(archive) /\ VsixManifestName \in DOMAIN archive.entries
       THEN /\ extraction' = ExtractAll(archive.entries)
            /\ pc' = "gh_find"
            /\ UNCHANGED << success, original >>
       ELSE /\ ReturnFailure
            /\ UNCHANGED extraction
    /\ UNCHANGED << script, archive, archive0, tools, faults, tempDirs, tmpFile,
                    package_json_path, mi, attempts, successLog, failedLog,
                    counters, ret, cwd, is_gzipped, wrote, pj, pjTarget, pjCalls, vsix_files, bi, calls, procs, tmpfs, backup_exists, response >>
GithubFind == Locate("gh_find", "gh_patch")
GithubPatch == Patch("gh_patch", "gh_rewrite", "fx_ret")
GithubRewrite == OpenForWrite("gh_rewrite", "gh_write")
GithubWrite == WriteEntry("gh_write")
GithubClose == CloseZip("gh_write")
GithubWriteFault == WriteFault("gh_write")

FixNext ==
    \/ FxStart \/ FxTry \/ FxReturn \/ FxSuccess \/ FxExhausted \/ FxCleanup
    \/ DirectZipExtract \/ DirectZipFind \/ DirectZipPatch \/ DirectZipOpen
    \/ DirectZipWrite \/ DirectZipClose \/ DirectZipWriteFault
    \/ UnzipExtract \/ UnzipFind \/ UnzipPatch \/ UnzipRepack \/ UnzipRepackFault
    \/ UnzipCopy \/ UnzipCopyDone \/ UnzipCopyFault
    \/ VsceProbe \/ VsceLs \/ VsceUnzip \/ VsceFind \/ VscePatch \/ VsceRepack
    \/ VsceRepackFault \/ VsceCopy \/ VsceCopyDone \/ VsceCopyFault
    \/ GithubOpen \/ GithubFind \/ GithubPatch \/ GithubRewrite \/ GithubWrite
    \/ GithubClose \/ GithubWriteFault

(***************************************************************************)
(* update_vsix_engine.py: process_vsix_file(vsix_path).                    *)
(***************************************************************************)
UpdTemp == "vsix_update_"
UpdOutTemp == "vsix_repackage_"

InitUpd ==
    /\ script = "upd"
    /\ pc = "vx_start"
    /\ archive \in InputArchives
    /\ tools = {}
    /\ pj = Blob /\ pjTarget = TargetVersion /\ pjCalls = << >>
    /\ vsix_files = << >> /\ bi = 0 /\ calls = << >>
    /\ procs = << >> /\ tmpfs = << >>
    /\ backup_exists = TRUE /\ response = ""
    /\ InitCommon

UpdFrame == << script, archive0, tools, mi, attempts, cwd, pj, pjTarget, pjCalls, vsix_files, bi, calls, procs, tmpfs, backup_exists, response >>

\* temp_dir = tempfile.mkdtemp(prefix="vsix_update_")
VxStart ==
    /\ pc = "vx_start"
    /\ tempDirs' = tempDirs \cup { UpdTemp }
    /\ pc' = "vx_mkout"
    /\ UNCHANGED << archive, faults, extraction, tmpFile, package_json_path,
                    success, original, successLog, failedLog, counters, ret,
                    is_gzipped, wrote >>
    /\ UNCHANGED UpdFrame

\* temp_output_dir = tempfile.mkdtemp(prefix="vsix_repackage_");
\* os.makedirs(extraction_dir, exist_ok=True)
VxMakeOutputDir ==
    /\ pc = "vx_mkout"
    /\ tempDirs' = tempDirs \cup { UpdOutTemp }
    /\ pc' = "vx_gzip"
    /\ UNCHANGED << archive, faults, extraction, tmpFile, package_json_path,
                    success, original, successLog, failedLog, counters, ret,
                    is_gzipped, wrote >>
    /\ UNCHANGED UpdFrame

\* the second mkdtemp raises OSError (no space, no inodes): the statement is
\* outside the try block, so the exception leaves process_vsix_file
VxMakeOutputDirFault ==
    /\ pc = "vx_mkout"
    /\ FaultAllowed
    /\ faults' = faults + 1
    /\ ret' = "raised"
    /\ pc' = "done"
    /\ UNCHANGED << archive, tempDirs, extraction, tmpFile, package_json_path,
                    success, original, successLog, failedLog, counters,
                    is_gzipped, wrote >>
    /\ UNCHANGED UpdFrame

\* Method 1: gzip.open(vsix_path) copied to extracted.zip, then ZipFile on it.
\* BadGzipFile, BadZipFile and OSError are caught here; EOFError, zlib.error
\* and NotImplementedError reach the function's except Exception.
VxGzip ==
    /\ pc = "vx_gzip"
    /\ \E caught \in BOOLEAN :
          CASE archive.gz = "ok" /\ IsZip(Gunzip(archive)) ->
                   /\ extraction' = ExtractAll(archive.entries)
                   /\ is_gzipped' = TRUE
                   /\ pc' = "vx_find"
            [] archive.gz = "ok" /\ IsUnsupportedZip(Gunzip(archive)) ->
                   /\ pc' = "vx_except"
                   /\ UNCHANGED << extraction, is_gzipped >>
            [] archive.gz = "bad" /\ ~caught ->
                   /\ pc' = "vx_except"
                   /\ UNCHANGED << extraction, is_gzipped >>
            [] OTHER ->
                   /\ pc' = "vx_zip"
                   /\ UNCHANGED << extraction, is_gzipped >>
    /\ UNCHANGED << archive, faults, tempDirs, tmpFile, package_json_path,
                    success, original, successLog, failedLog, counters, ret, wrote >>
    /\ UNCHANGED UpdFrame

\* Method 2: zipfile.ZipFile(vsix_path, 'r').extractall(extraction_dir);
\* only BadZipFile is caught here
\* (VxZipUnchecked: without the test of extraction_success that follows)
VxZipUnchecked ==
    /\ pc = "vx_zip"
    /\ CASE IsZip(archive) ->
                /\ extraction' = ExtractAll(archive.entries)
                /\ is_gzipped' = FALSE
                /\ pc' = "vx_find"
         [] IsUnsupportedZip(archive) ->
                /\ pc' = "vx_except"
                /\ UNCHANGED << extraction, is_gzipped >>
         [] OTHER ->
                /\ pc' = "vx_find"
                /\ UNCHANGED << extraction, is_gzipped >>
    /\ UNCHANGED << archive, faults, tempDirs, tmpFile, package_json_path,
                    success, original, successLog, failedLog, counters, ret, wrote >>
    /\ UNCHANGED UpdFrame
VxZip ==
    /\ pc = "vx_zip"
    /\ CASE IsZip(archive) ->
                /\ extraction' = ExtractAll(archive.entries)
                /\ is_gzipped' = FALSE
                /\ pc' = "vx_find"
         [] IsUnsupportedZip(archive) ->
                /\ pc' = "vx_except"
                /\ UNCHANGED << extraction, is_gzipped >>
         [] OTHER ->
                /\ pc' = "vx_noextract"
                /\ UNCHANGED << extraction, is_gzipped >>
    /\ UNCHANGED << archive, faults, tempDirs, tmpFile, package_json_path,
                    success, original, successLog, failedLog, counters, ret, wrote >>
    /\ UNCHANGED UpdFrame

\* a return False of process_vsix_file: one counter, one FAILED_LOG line
VxFail(here, counter, msg) ==
    /\ pc = here
    /\ counters' = Bump(counters, counter)
    /\ failedLog' = Append(failedLog, FailureLine(extension_name, msg))
    /\ ret' = "False"
    /\ pc' = "vx_cleanup"
    /\ UNCHANGED << archive, faults, tempDirs, extraction, tmpFile,
                    package_json_path, success, original, successLog,
                    is_gzipped, wrote >>
    /\ UNCHANGED UpdFrame

\* if not extraction_success: lines 143-148
VxNoExtract == VxFail("vx_noextract", "failed_updates", "Could not extract file")

\* package_json_path = find_package_json(extraction_dir): lines 151-152
VxFind ==
    /\ pc = "vx_find"
    /\ package_json_path' = find_package_json(extraction)
    /\ pc' = IF package_json_path' # "None" THEN "vx_patch" ELSE "vx_nomanifest"
    /\ UNCHANGED << archive, faults, tempDirs, extraction, tmpFile, success,
                    original, successLog, failedLog, counters, ret, is_gzipped,
                    wrote >>
    /\ UNCHANGED UpdFrame

\* lines 153-157
VxNoManifest == VxFail("vx_nomanifest", "skipped_extensions", "No package.json found")

\* success, original_version, new_version = update_package_json(...)
VxPatch == Patch("vx_patch", "vx_repack", "vx_patchfailed")

\* lines 161-166
VxPatchFailed == VxFail("vx_patchfailed", "failed_updates", "Failed to update package.json")

\* updated.zip is written under temp_output_dir: lines 169-175
VxRepack ==
    /\ pc = "vx_repack"
    /\ tmpFile' = Zip(Repackaged(extraction))
    /\ pc' = "vx_wrap"
    /\ UNCHANGED << archive, faults, tempDirs, extraction, package_json_path,
                    success, original, successLog, failedLog, counters, ret,
                    is_gzipped, wrote >>
    /\ UNCHANGED UpdFrame

\* writing updated.zip raises
VxRepackFault ==
    /\ pc = "vx_repack"
    /\ FaultAllowed
    /\ faults' = faults + 1
    /\ pc' = "vx_except"
    /\ UNCHANGED << archive, tempDirs, extraction, tmpFile, package_json_path,
                    success, original, successLog, failedLog, counters, ret,
                    is_gzipped, wrote >>
    /\ UNCHANGED UpdFrame

\* output_file: recompressed.vsix when the original was gzipped, else updated.zip
OutputFileNeverGzip(gzipped, updated) == updated
OutputFile(gzipped, updated) == IF gzipped THEN Gzip(updated) ELSE updated

\* lines 178-187
VxWrap ==
    /\ pc = "vx_wrap"
    /\ tmpFile' = OutputFile(is_gzipped, tmpFile)
    /\ pc' = "vx_copy"
    /\ UNCHANGED << archive, faults, tempDirs, extraction, package_json_path,
                    success, original, successLog, failedLog, counters, ret,
                    is_gzipped, wrote >>
    /\ UNCHANGED UpdFrame

\* shutil.copy2(output_file, vsix_path) opens vsix_path for writing ...
VxCopy ==
    /\ pc = "vx_copy"
    /\ archive' = Partial(tmpFile)
    /\ wrote' = TRUE
    /\ pc' = "vx_copying"
    /\ UNCHANGED << faults, tempDirs, extraction, tmpFile, package_json_path,
                    success, original, successLog, failedLog, counters, ret,
                    is_gzipped >>
    /\ UNCHANGED UpdFrame

\* ... and copies the bytes
VxCopyDone ==
    /\ pc = "vx_copying"
    /\ archive' = tmpFile
    /\ pc' = "vx_success"
    /\ UNCHANGED << faults, tempDirs, extraction, tmpFile, package_json_path,
                    success, original, successLog, failedLog, counters, ret,
                    is_gzipped, wrote >>
    /\ UNCHANGED UpdFrame

\* ... or raises part way
VxCopyFault ==
    /\ pc = "vx_copying"
    /\ FaultAllowed
    /\ faults' = faults + 1
    /\ pc' = "vx_except"
    /\ UNCHANGED << archive, tempDirs, extraction, tmpFile, package_json_path,
                    success, original, successLog, failedLog, counters, ret,
                    is_gzipped, wrote >>
    /\ UNCHANGED UpdFrame

\* the line process_vsix_file writes to SUCCESS_LOG names no strategy
\* (UpdSuccessLineUsing: the line with process_extension's suffix)
UpdSuccessLineUsing(name, old, new) ==
    [name |-> name, original |-> old, new |-> new, method |-> methods[1]]
UpdSuccessLine(name, old, new) ==
    [name |-> name, original |-> old, new |-> new, method |-> "none"]

\* lines 193-198
VxSuccess ==
    /\ pc = "vx_success"
    /\ counters' = Bump(counters, "successful_updates")
    /\ successLog' = Append(successLog,
                            UpdSuccessLine(extension_name, original, Str(TargetVersion)))
    /\ ret' = "True"
    /\ pc' = "vx_cleanup"
    /\ UNCHANGED << archive, faults, tempDirs, extraction, tmpFile,
                    package_json_path, success, original, failedLog, is_gzipped,
                    wrote >>
    /\ UNCHANGED UpdFrame

\* except Exception as e: lines 206-211
VxExcept == VxFail("vx_except", "failed_updates", "str(e)")

\* finally: both temporary directories are removed
VxCleanup ==
    /\ pc = "vx_cleanup"
    /\ tempDirs' = tempDirs \ { UpdTemp, UpdOutTemp }
    /\ extraction' = EmptyTree
    /\ tmpFile' = NoFile
    /\ pc' = "done"
    /\ UNCHANGED << archive, faults, package_json_path, success, original,
                    successLog, failedLog, counters, ret, is_gzipped, wrote >>
    /\ UNCHANGED UpdFrame

UpdNext ==
    \/ VxStart \/ VxMakeOutputDir \/ VxMakeOutputDirFault \/ VxGzip \/ VxZip
    \/ VxNoExtract \/ VxFind \/ VxNoManifest \/ VxPatch \/ VxPatchFailed
    \/ VxRepack \/ VxRepackFault \/ VxWrap \/ VxCopy \/ VxCopyDone
    \/ VxCopyFault \/ VxSuccess \/ VxExcept \/ VxCleanup

(***************************************************************************)
(* update_package_json called on one manifest file, more than once.        *)
(***************************************************************************)
InitPatch ==
    /\ script = "patch"
    /\ pc = "pj_call"
    /\ archive = NoFile
    /\ tools = {}
    /\ pj \in ManifestFiles
    /\ pjTarget \in Targets
    /\ pjCalls = << >>
    /\ vsix_files = << >> /\ bi = 0 /\ calls = << >>
    /\ procs = << >> /\ tmpfs = << >>
    /\ backup_exists = TRUE /\ response = ""
    /\ InitCommon

\* r = update_package_json(package_json_path, target_version)
CallUpdate ==
    /\ pc = "pj_call"
    /\ Len(pjCalls) < MaxCalls
    /\ LET r == update_package_json(pj, pjTarget)
       IN  /\ pj' = r.file
           /\ pjCalls' = Append(pjCalls,
                 [ok |-> r.ok, original |-> r.original, new |-> r.new,
                  before |-> pj, after |-> r.file])
    /\ UNCHANGED << script, pc, archive, archive0, tools, faults, tempDirs,
                    extraction, tmpFile, package_json_path, success, original, mi,
                    attempts, successLog, failedLog, counters, ret, cwd,
                    is_gzipped, wrote, pjTarget, vsix_files, bi, calls, procs, tmpfs, backup_exists, response >>

(***************************************************************************)
(* parallel_install_extensions.py: is_gzipped and extract_vsix, the        *)
(* installer's classifier and extraction ("extract" runs).  `extraction`   *)
(* is target_dir, `tmpFile` is decompressed.zip.                           *)
(***************************************************************************)
\* is_gzipped(file_path): f.read(2) == b'\x1f\x8b'; False when open raises
\* (IsGzippedByStream: True only for a stream that decompresses)
IsGzippedByStream(file) == file.gz = "ok"
IsGzipped(file) == file.gz # "no"

ExtractTemp == "tmp"

InitExtract ==
    /\ script = "extract"
    /\ pc = "ev_start"
    /\ archive \in InputArchives \cup { NoFile }
    /\ tools = {}
    /\ pj = Blob /\ pjTarget = TargetVersion /\ pjCalls = << >>
    /\ vsix_files = << >> /\ bi = 0 /\ calls = << >>
    /\ procs = << >> /\ tmpfs = << >>
    /\ backup_exists = TRUE /\ response = ""
    /\ InitCommon

ExtractFrame == << script, archive, archive0, tools, faults, package_json_path,
                   success, original, mi, attempts, successLog, failedLog,
                   counters, cwd, wrote, pj, pjTarget, pjCalls, vsix_files, bi,
                   calls, procs, tmpfs, backup_exists, response >>

\* temp_dir = tempfile.mkdtemp(); if is_gzipped(vsix_path):
EvStart ==
    /\ pc = "ev_start"
    /\ tempDirs' = tempDirs \cup { ExtractTemp }
    /\ is_gzipped' = IsGzipped(archive)
    /\ pc' = IF is_gzipped' THEN "ev_gunzip" ELSE "ev_unzip"
    /\ UNCHANGED << extraction, tmpFile, ret >>
    /\ UNCHANGED ExtractFrame

\* gzip.open(vsix_path) copied to decompressed.zip; any exception is caught
\* by the function's except Exception
EvGunzip ==
    /\ pc = "ev_gunzip"
    /\ IF archive.gz = "ok"
       THEN tmpFile' = Gunzip(archive) /\ pc' = "ev_unzip" /\ UNCHANGED ret
       ELSE ret' = "False" /\ pc' = "ev_cleanup" /\ UNCHANGED tmpFile
    /\ UNCHANGED << tempDirs, extraction, is_gzipped >>
    /\ UNCHANGED ExtractFrame

\* zipfile.ZipFile(vsix_to_extract, 'r').extractall(target_dir); return True
EvUnzip ==
    /\ pc = "ev_unzip"
    /\ LET vsix_to_extract == IF is_gzipped THEN tmpFile ELSE archive
       IN  IF IsZip(vsix_to_extract)
           THEN extraction' = ExtractAll(vsix_to_extract.entries) /\ ret' = "True"
           ELSE ret' = "False" /\ UNCHANGED extraction
    /\ pc' = "ev_cleanup"
    /\ UNCHANGED << tempDirs, tmpFile, is_gzipped >>
    /\ UNCHANGED ExtractFrame

\* finally: shutil.rmtree(temp_dir)
EvCleanup ==
    /\ pc = "ev_cleanup"
    /\ tempDirs' = tempDirs \ { ExtractTemp }
    /\ tmpFile' = NoFile
    /\ pc' = "done"
    /\ UNCHANGED << extraction, is_gzipped, ret >>
    /\ UNCHANGED ExtractFrame

ExtractNext == EvStart \/ EvGunzip \/ EvUnzip \/ EvCleanup

(***************************************************************************)
(* The batch loops: process_extensions of fix_github_extensions.py         *)
(* ("fixes") and main of update_vsix_engine.py ("updates").  vsix_files    *)
(* holds the bytes each selected file has when the batch starts.           *)
(***************************************************************************)
BatchScripts == { "fixes", "updates" }

BatchManifest ==
    Text("compact", Obj(<< NamePair, <<"engines", Obj(<< <<"vscode", Str("^1.0.0")>> >>)>> >>))
BatchArchives ==
    { Zip([n \in {ManifestName} |-> BatchManifest]),
      Gzip(Zip([n \in {ManifestName} |-> BatchManifest])),
      Zip([n \in {VsixManifestName} |-> Blob]),
      Garbage }
BatchLists == UNION { [1..n -> BatchArchives] : n \in 0..MaxBatch }
BatchToolSets == { {}, {"unzip", "zip", "vsce"} }

InitBatch ==
    /\ script \in BatchScripts
    /\ pc = "mn_start"
    /\ vsix_files \in BatchLists
    /\ bi = 0
    /\ calls = << >>
    /\ procs = << >> /\ tmpfs = << >>
    /\ archive = NoFile
    /\ tools \in BatchToolSets
    /\ pj = Blob /\ pjTarget = TargetVersion /\ pjCalls = << >>
    /\ backup_exists \in BOOLEAN /\ response = ""
    /\ InitCommon

BatchFrame == << script, archive, archive0, tools, faults, tempDirs, extraction,
                 tmpFile, package_json_path, success, original, mi, attempts,
                 successLog, failedLog, ret, cwd, is_gzipped, wrote, pj,
                 pjTarget, pjCalls, vsix_files, bi, calls, procs, tmpfs, backup_exists, response >>

\* total_extensions = len(vsix_files); if total_extensions == 0: return
\* (process_extensions) or sys.exit(1) (main)
BatchStart ==
    /\ pc = "bx_start"
    /\ counters' = [counters EXCEPT !.total_extensions = Len(vsix_files)]
    /\ pc' = IF Len(vsix_files) = 0 THEN "bx_exit" ELSE "bx_loop"
    /\ UNCHANGED BatchFrame

\* for vsix_path in vsix_files: process_extension(vsix_path) /
\* process_vsix_file(vsix_path)
BatchCall ==
    /\ pc = "bx_loop"
    /\ bi < Len(vsix_files)
    /\ bi' = bi + 1
    /\ calls' = Append(calls, bi + 1)
    /\ archive' = vsix_files[bi + 1]
    /\ archive0' = vsix_files[bi + 1]
    /\ package_json_path' = "None"
    /\ success' = FALSE
    /\ original' = None
    /\ mi' = 0
    /\ attempts' = << >>
    /\ is_gzipped' = FALSE
    /\ wrote' = FALSE
    /\ ret' = "none"
    /\ pc' = IF script = "fixes" THEN "fx_start" ELSE "vx_start"
    /\ UNCHANGED << script, tools, faults, tempDirs, extraction, tmpFile,
                    successLog, failedLog, counters, cwd, pj, pjTarget, pjCalls,
                    vsix_files, procs, tmpfs, backup_exists, response >>

\* the processing function returned: the loop goes on whatever it returned
BatchReturn ==
    /\ pc = "done"
    /\ script \in BatchScripts
    /\ ret # "raised"
    /\ pc' = "bx_loop"
    /\ UNCHANGED counters
    /\ UNCHANGED BatchFrame

\* the processing function raised: nothing in the loop catches it, the
\* batch ends with the archives after this one not processed
BatchRaise ==
    /\ pc = "done"
    /\ script \in BatchScripts
    /\ ret = "raised"
    /\ pc' = "bx_aborted"
    /\ UNCHANGED counters
    /\ UNCHANGED BatchFrame

\* the list is exhausted: the summary is printed
BatchEnd ==
    /\ pc = "bx_loop"
    /\ bi = Len(vsix_files)
    /\ pc' = "bx_exit"
    /\ UNCHANGED counters
    /\ UNCHANGED BatchFrame

BatchNext == BatchStart \/ BatchCall \/ BatchReturn \/ BatchRaise \/ BatchEnd

(***************************************************************************)
(* main of the two scripts, up to the start of the batch: the check that   *)
(* BACKUP_DIR exists.                                                      *)
(***************************************************************************)
MainFrame == << script, archive, archive0, tools, faults, tempDirs, extraction,
                tmpFile, package_json_path, success, original, mi, attempts,
                successLog, failedLog, counters, ret, cwd, is_gzipped, wrote,
                pj, pjTarget, pjCalls, vsix_files, bi, calls, procs, tmpfs,
                backup_exists >>

\* what the operator may type at "Continue without backup? (y/n): "
Responses == { "y", "Y", "n", "yes", "" }

\* response.lower()
Lower(r) == CASE r = "Y" -> "y" [] OTHER -> r

\* if not os.path.exists(BACKUP_DIR): update_vsix_engine logs an error and
\* calls sys.exit(1); fix_github_extensions prints a warning and asks
\* (MainBackupCheckWarnOnly: the warning without the exit or the question)
MainBackupCheckWarnOnly ==
    /\ pc = "mn_start"
    /\ pc' = "bx_start"
    /\ UNCHANGED response
    /\ UNCHANGED MainFrame
MainBackupCheck ==
    /\ pc = "mn_start"
    /\ pc' = IF backup_exists THEN "bx_start"
             ELSE IF script = "updates" THEN "mn_exit" ELSE "mn_prompt"
    /\ UNCHANGED response
    /\ UNCHANGED MainFrame

\* response = input("Continue without backup? (y/n): ");
\* if response.lower() != 'y': sys.exit(1)
MainPrompt ==
    /\ pc = "mn_prompt"
    /\ \E r \in Responses :
          /\ response' = r
          /\ pc' = IF Lower(r) # "y" THEN "mn_exit" ELSE "bx_start"
    /\ UNCHANGED MainFrame

MainNext == MainBackupCheck \/ MainPrompt

(***************************************************************************)
(* Two invocations in two processes ("par" runs), each of process_vsix_file*)
(* or of process_extension, each on its own archive path.  The processes   *)
(* share the temporary-file area: tmpfs maps the name of every existing    *)
(* temporary directory to what it holds (the extracted tree and the        *)
(* replacement archive).  Counters and the working directory are per       *)
(* process.  No external tool is installed, so of process_extension's      *)
(* strategies Manual unzip and VSCE tool fail at once, and no I/O error is *)
(* raised.                                                                 *)
(***************************************************************************)
Procs == { 1, 2 }
ParKinds == { "upd", "fix" }
EmptyDir == [tree |-> EmptyTree, file |-> NoFile]

\* tempfile.mkdtemp(prefix=...): creates a directory whose name does not
\* exist yet (mkdtempFixed: one fixed directory per prefix)
mkdtempFixed(prefix, existing) == { << prefix, Cardinality(Procs) >> }
mkdtemp(prefix, existing) ==
    { << prefix, k >> : k \in 1..Cardinality(Procs) } \ existing

\* what a temporary directory holds; nothing when it does not exist
Dir(name) == IF name \in DOMAIN tmpfs THEN tmpfs[name] ELSE EmptyDir
Range(seq) == { seq[i] : i \in 1..Len(seq) }

NewProc(kind, file) ==
    [kind |-> kind, pc |-> "start", vsix |-> file, vsix0 |-> file,
     dirs |-> << >>, path |-> "None", gz |-> FALSE, mi |-> 1, ret |-> "none"]

InitPar ==
    /\ script = "par"
    /\ pc = "par"
    /\ procs \in [Procs -> { NewProc(k, a) : k \in ParKinds, a \in BatchArchives }]
    /\ tmpfs = << >>
    /\ archive = NoFile
    /\ tools = {}
    /\ pj = Blob /\ pjTarget = TargetVersion /\ pjCalls = << >>
    /\ vsix_files = << >> /\ bi = 0 /\ calls = << >>
    /\ backup_exists = TRUE /\ response = ""
    /\ InitCommon

ParFrame == << script, pc, archive, archive0, tools, faults, tempDirs, extraction,
               tmpFile, package_json_path, success, original, mi, attempts,
               successLog, failedLog, counters, ret, cwd, is_gzipped, wrote,
               pj, pjTarget, pjCalls, vsix_files, bi, calls, backup_exists,
               response >>

\* the strategy or the pipeline failed: process_extension goes on to its
\* last strategy, otherwise the invocation returns False
FailStep(r) ==
    IF r.kind = "fix" /\ r.mi = 1
    THEN [r EXCEPT !.pc = "gh_open", !.mi = Len(methods), !.path = "None"]
    ELSE [r EXCEPT !.pc = "cleanup", !.ret = "False"]

\* temp_dir = tempfile.mkdtemp(prefix="vsix_update_" / "github_ext_fix_")
ParStart(p) ==
    /\ procs[p].pc = "start"
    /\ \E d \in mkdtemp(IF procs[p].kind = "upd" THEN UpdTemp ELSE FixTemp,
                        DOMAIN tmpfs) :
          /\ tmpfs' = WithFile(tmpfs, d, EmptyDir)
          /\ procs' = [procs EXCEPT ![p].dirs = Append(@, d),
                                    ![p].pc = IF procs[p].kind = "upd"
                                              THEN "mk2" ELSE "dz_extract"]
    /\ UNCHANGED ParFrame

\* temp_output_dir = tempfile.mkdtemp(prefix="vsix_repackage_")
ParMakeOutputDir(p) ==
    /\ procs[p].pc = "mk2"
    /\ \E d \in mkdtemp(UpdOutTemp, DOMAIN tmpfs) :
          /\ tmpfs' = WithFile(tmpfs, d, EmptyDir)
          /\ procs' = [procs EXCEPT ![p].dirs = Append(@, d), ![p].pc = "extract"]
    /\ UNCHANGED ParFrame

\* process_vsix_file, methods 1 and 2: extraction into temp_dir/contents
ParExtract(p) ==
    /\ procs[p].pc = "extract"
    /\ LET a == procs[p].vsix
           d == procs[p].dirs[1]
       IN  IF (a.gz = "ok" /\ IsZip(Gunzip(a))) \/ IsZip(a)
           THEN /\ tmpfs' = WithFile(tmpfs, d, [Dir(d) EXCEPT !.tree = ExtractAll(a.entries)])
                /\ procs' = [procs EXCEPT ![p].gz = (a.gz = "ok"), ![p].pc = "find"]
           ELSE /\ procs' = [procs EXCEPT ![p] = FailStep(@)]
                /\ UNCHANGED tmpfs
    /\ UNCHANGED ParFrame

\* try_direct_zip_method: extraction into temp_dir/direct_zip
ParDirectZipExtract(p) ==
    /\ procs[p].pc = "dz_extract"
    /\ LET a == procs[p].vsix
           d == procs[p].dirs[1]
       IN  IF IsZip(a)
           THEN /\ tmpfs' = WithFile(tmpfs, d, [Dir(d) EXCEPT !.tree = ExtractAll(a.entries)])
                /\ procs' = [procs EXCEPT ![p].pc = "find"]
           ELSE /\ procs' = [procs EXCEPT ![p] = FailStep(@)]
                /\ UNCHANGED tmpfs
    /\ UNCHANGED ParFrame

\* try_github_specific_format: extraction into temp_dir/github_extract when
\* the archive lists extension.vsixmanifest
ParGithubOpen(p) ==
    /\ procs[p].pc = "gh_open"
    /\ LET a == procs[p].vsix
           d == procs[p].dirs[1]
       IN  IF IsZip(a) /\ VsixManifestName \in DOMAIN a.entries
           THEN /\ tmpfs' = WithFile(tmpfs, d, [Dir(d) EXCEPT !.tree = ExtractAll(a.entries)])
                /\ procs' = [procs EXCEPT ![p].pc = "find"]
           ELSE /\ procs' = [procs EXCEPT ![p] = FailStep(@)]
                /\ UNCHANGED tmpfs
    /\ UNCHANGED ParFrame

\* package_json_path = find_package_json(extraction_dir)
ParFind(p) ==
    /\ procs[p].pc = "find"
    /\ LET m == find_package_json(Dir(procs[p].dirs[1]).tree)
       IN  procs' = [procs EXCEPT ![p] = IF m = "None" THEN FailStep(@)
                                         ELSE [@ EXCEPT !.path = m, !.pc = "patch"]]
    /\ UNCHANGED tmpfs
    /\ UNCHANGED ParFrame

\* success, original, new = update_package_json(package_json_path)
ParPatch(p) ==
    /\ procs[p].pc = "patch"
    /\ LET d == procs[p].dirs[1]
           m == procs[p].path
       IN  IF m \in DOMAIN Dir(d).tree
              /\ update_package_json(Dir(d).tree[m], TargetVersion).ok
           THEN /\ tmpfs' = WithFile(tmpfs, d,
                      [Dir(d) EXCEPT !.tree[m] =
                           update_package_json(Dir(d).tree[m], TargetVersion).file])
                /\ procs' = [procs EXCEPT ![p].pc = IF procs[p].kind = "upd"
                                                    THEN "repack" ELSE "write"]
           ELSE /\ procs' = [procs EXCEPT ![p] = FailStep(@)]
                /\ UNCHANGED tmpfs
    /\ UNCHANGED ParFrame

\* process_vsix_file: updated.zip, gzipped again when the input was: the
\* output file under temp_output_dir
ParRepack(p) ==
    /\ procs[p].pc = "repack"
    /\ LET d == procs[p].dirs[1]
           out == procs[p].dirs[Len(procs[p].dirs)]
       IN  tmpfs' = WithFile(tmpfs, out,
                       [Dir(out) EXCEPT !.file = OutputFile(procs[p].gz, Zip(Repackaged(Dir(d).tree)))])
    /\ procs' = [procs EXCEPT ![p].pc = "copy"]
    /\ UNCHANGED ParFrame

\* shutil.copy2(output_file, vsix_path); return True
ParCopy(p) ==
    /\ procs[p].pc = "copy"
    /\ procs' = [procs EXCEPT ![p].vsix = Dir(procs[p].dirs[Len(procs[p].dirs)]).file,
                              ![p].ret = "True", ![p].pc = "cleanup"]
    /\ UNCHANGED tmpfs
    /\ UNCHANGED ParFrame

\* process_extension: zipfile.ZipFile(vsix_path, 'w') written from the
\* extraction directory; return True
ParWrite(p) ==
    /\ procs[p].pc = "write"
    /\ procs' = [procs EXCEPT ![p].vsix = Zip(Repackaged(Dir(procs[p].dirs[1]).tree)),
                              ![p].ret = "True", ![p].pc = "cleanup"]
    /\ UNCHANGED tmpfs
    /\ UNCHANGED ParFrame

\* finally: shutil.rmtree(..., ignore_errors=True) of the invocation's
\* temporary directories
ParCleanup(p) ==
    /\ procs[p].pc = "cleanup"
    /\ tmpfs' = [n \in DOMAIN tmpfs \ Range(procs[p].dirs) |-> tmpfs[n]]
    /\ procs' = [procs EXCEPT ![p].dirs = << >>, ![p].pc = "done"]
    /\ UNCHANGED ParFrame

ParNext ==
    /\ script = "par"
    /\ \E p \in Procs :
        \/ ParStart(p) \/ ParMakeOutputDir(p) \/ ParExtract(p)
        \/ ParDirectZipExtract(p) \/ ParGithubOpen(p) \/ ParFind(p)
        \/ ParPatch(p) \/ ParRepack(p) \/ ParCopy(p) \/ ParWrite(p)
        \/ ParCleanup(p)

(***************************************************************************)
(* parallel_install_extensions.py: distribute_extensions ("mpi" runs).     *)
(* vsix_files is all_extensions, the sorted list of the archive paths      *)
(* (path i is written i); procs maps each rank 0..size-1 to the list it    *)
(* has computed for itself.                                                *)
(***************************************************************************)
\* extensions[start_idx:end_idx] of a Python list
PySlice(list, start_idx, end_idx) ==
    SubSeq(list,
           (IF start_idx < Len(list) THEN start_idx ELSE Len(list)) + 1,
           IF end_idx < Len(list) THEN end_idx ELSE Len(list))

\* distribute_extensions(extensions) in the process whose rank is `rank`,
\* of `size` processes
\* (distribute_extensionsNoRemainder: chunk_size entries for every rank)
distribute_extensionsNoRemainder(extensions, rank, size) ==
    LET chunk_size == Len(extensions) \div size
    IN  PySlice(extensions, rank * chunk_size, rank * chunk_size + chunk_size)
distribute_extensions(extensions, rank, size) ==
    LET num_extensions == Len(extensions)
        chunk_size == num_extensions \div size
        remainder == num_extensions % size
        start_idx == rank * chunk_size
                        + (IF rank < remainder THEN rank ELSE remainder)
        end_idx == start_idx + chunk_size + (IF rank < remainder THEN 1 ELSE 0)
    IN  PySlice(extensions, start_idx, end_idx)

InitMpi ==
    /\ script = "mpi"
    /\ pc = "mpi"
    /\ vsix_files \in { [i \in 1..n |-> i] : n \in 0..MaxExtensions }
    /\ procs \in { [rank \in 0..(size - 1) |-> [pc |-> "start", extensions |-> << >>]] :
                     size \in 1..MaxRanks }
    /\ tmpfs = << >>
    /\ bi = 0
    /\ calls = << >>
    /\ archive = NoFile
    /\ tools = {}
    /\ pj = Blob /\ pjTarget = TargetVersion /\ pjCalls = << >>
    /\ backup_exists = TRUE /\ response = ""
    /\ InitCommon

\* my_extensions = distribute_extensions(all_extensions), in one rank
Distribute(rank) ==
    /\ procs[rank].pc = "start"
    /\ procs' = [procs EXCEPT ![rank] =
                    [pc |-> "done",
                     extensions |-> distribute_extensions(vsix_files, rank,
                                        Cardinality(DOMAIN procs))]]
    /\ UNCHANGED << script, pc, archive, archive0, tools, faults, tempDirs,
                    extraction, tmpFile, package_json_path, success, original, mi,
                    attempts, successLog, failedLog, counters, ret, cwd,
                    is_gzipped, wrote, pj, pjTarget, pjCalls, vsix_files, bi,
                    calls, tmpfs, backup_exists, response >>

MpiNext ==
    /\ script = "mpi"
    /\ \E rank \in DOMAIN procs : Distribute(rank)

Init == InitFix \/ InitUpd \/ InitPatch \/ InitExtract \/ InitBatch \/ InitPar
           \/ InitMpi
Next == FixNext \/ UpdNext \/ CallUpdate \/ ExtractNext \/ MainNext \/ BatchNext
           \/ ParNext \/ MpiNext
Spec == Init /\ [][Next]_vars

\* the interpreter goes on to the next statement of the running script:
\* process_extension and process_extensions run in one thread, and the
\* external commands they wait for are taken to exit
FairSpec == Spec /\ WF_vars(FixNext) /\ WF_vars(BatchNext)

(***************************************************************************)
(* Properties.                                                             *)
(***************************************************************************)
Done == pc = "done"
Lines == Len(successLog) + Len(failedLog)

\* C1: process_extension tries the strategies in the order Standard ZIP,
\* Manual unzip, VSCE tool, GitHub specific; a strategy runs only if every
\* strategy before it returned failure, so none runs after a success.
C1_StrategiesInOrder ==
    script = "fix" =>
        /\ Len(attempts) <= Len(methods)
        /\ \A i \in 1..Len(attempts) : attempts[i].method = methods[i]
        /\ \A i \in 1..(Len(attempts) - 1) : attempts[i].ok = "False"

C1_ThirdStrategyWins ==
    /\ script = "fix" /\ Done
    /\ Len(attempts) = 3
    /\ attempts[1].ok = "False" /\ attempts[2].ok = "False"
    /\ attempts[3].ok = "True"

\* the file at vsix_path is a complete replacement of the original archive
CompleteReplacement ==
    /\ archive.gz # "bad"
    /\ IsZip(Gunzip(archive))
    /\ DOMAIN archive.entries = DOMAIN ExtractAll(archive0.entries)

\* C2: at every point of process_vsix_file and of every strategy of
\* process_extension the file at the original path is either the complete
\* original archive or a complete replacement, never a truncated or
\* partially written archive.
C2_OriginalOrComplete ==
    script \in {"fix", "upd"} => (archive = archive0 \/ CompleteReplacement)

\* C3: when processing ends in failure the bytes at the archive's path are
\* the bytes it had before processing started.
C3_FailureLeavesOriginal ==
    (script \in {"fix", "upd"} /\ Done /\ ret = "False") => archive = archive0

LedgerNames(method) ==
    \E j \in 1..Len(successLog) : successLog[j].method = method

C6_TempDirsRemoved ==
    (script \in {"fix", "upd"} /\ Done) => tempDirs = {}

\* the parsed document `after` is `before` with engines.vscode set to target
\* and nothing else changed
OnlyEngineChanged(before, after, target) ==
    /\ after.t = "obj"
    /\ Keys(after.m) = Keys(before.m) \cup {"engines"}
    /\ \A k \in Keys(before.m) \ {"engines"} :
          SameDoc(Get(after.m, k), Get(before.m, k))
    /\ LET ea == Get(after.m, "engines")
           eb == IF "engines" \in Keys(before.m) THEN Get(before.m, "engines")
                 ELSE Obj(<< >>)
       IN  /\ ea.t = "obj"
           /\ Keys(ea.m) = Keys(eb.m) \cup {"vscode"}
           /\ Get(ea.m, "vscode") = Str(target)
           /\ \A k \in Keys(eb.m) \ {"vscode"} :
                 SameDoc(Get(ea.m, k), Get(eb.m, k))

\* C7: after a successful run the output archive has the same file entries
\* as the input (by the names the files have once extracted), every entry
\* other than the patched manifest has the input's content, and the patched
\* manifest differs from the input's only in engines.vscode, which equals
\* the target value.
C7_ContentPreserved ==
    (script \in {"fix", "upd"} /\ Done /\ ret = "True") =>
        LET in == ExtractAll(archive0.entries)
            out == archive.entries
            m == find_package_json(in)
        IN  /\ DOMAIN out = DOMAIN in
            /\ m # "None"
            /\ \A n \in DOMAIN in \ {m} : out[n] = in[n]
            /\ in[m].ok
            /\ OnlyEngineChanged(Parsed(in[m]), Parsed(out[m]), TargetVersion)

\* the container kind the classifier gives a file
Kind(file) ==
    IF file.gz # "no" THEN "GzipWrappedZip"
    ELSE IF file.body \in {"zip", "zipx"} THEN "PlainZip"
    ELSE "Unknown"

\* C8: when the pipeline succeeds the file written back has the container
\* kind of the input: a gzip stream that decompresses to a valid ZIP for a
\* gzip-wrapped input, a plain ZIP for a plain ZIP input.
C8_KindPreserved ==
    (script \in {"fix", "upd"} /\ Done /\ ret = "True") =>
        /\ Kind(archive) = Kind(archive0)
        /\ Kind(archive) # "Unknown"
        /\ IsZip(Gunzip(archive))
        /\ archive.gz \in {"no", "ok"}

C8_GzipInputSucceeded ==
    /\ script = "upd" /\ Done /\ ret = "True"
    /\ Kind(archive0) = "GzipWrappedZip"
    /\ archive # archive0

\* whether the parsed document has engines.vscode
HasEngine(doc) ==
    /\ doc.t = "obj"
    /\ "engines" \in Keys(doc.m)
    /\ "vscode" \in Keys(Get(doc.m, "engines").m)

\* C9: after update_package_json returns success, engines.vscode equals the
\* target, every other key and value of the parsed document (other engines
\* entries included) is as before, and the call returned (True, previous
\* value or None when the field was absent, target).
C9_OnlyEngineFieldChanges ==
    \A i \in 1..Len(pjCalls) :
        pjCalls[i].ok =>
            LET before == Parsed(pjCalls[i].before)
                after == Parsed(pjCalls[i].after)
            IN  /\ pjCalls[i].after.ok
                /\ OnlyEngineChanged(before, after, pjTarget)
                /\ pjCalls[i].new = Str(pjTarget)
                /\ pjCalls[i].original =
                      IF HasEngine(before)
                      THEN Get(Get(before.m, "engines").m, "vscode")
                      ELSE None

C9_PatchedBesideOtherEntries ==
    \E i \in 1..Len(pjCalls) :
        /\ pjCalls[i].ok
        /\ HasEngine(Parsed(pjCalls[i].before))
        /\ "node" \in Keys(Get(Parsed(pjCalls[i].before).m, "engines").m)
        /\ "name" \in Keys(Parsed(pjCalls[i].before).m)
        /\ pjCalls[i].original # Str(pjTarget)

\* C10: update_package_json is idempotent for a fixed target V: a call that
\* follows a successful call succeeds, leaves the parsed content as the
\* first call left it, and reports previous value V and new value V.
C10_Idempotent ==
    \A i \in 1..(Len(pjCalls) - 1) :
        pjCalls[i].ok =>
            /\ pjCalls[i + 1].ok
            /\ SameDoc(Parsed(pjCalls[i + 1].after), Parsed(pjCalls[i].after))
            /\ pjCalls[i + 1].original = Str(pjTarget)
            /\ pjCalls[i + 1].new = Str(pjTarget)

C10_SecondCallAfterChange ==
    /\ Len(pjCalls) >= 2
    /\ pjCalls[1].ok
    /\ pjCalls[1].original # Str(pjTarget)
    /\ ~SameDoc(Parsed(pjCalls[1].before), Parsed(pjCalls[1].after))

\* the manifest is one update_package_json cannot patch: not JSON text, or
\* JSON whose top level or whose engines value is not an object
Unpatchable(file) ==
    \/ ~file.ok
    \/ Parsed(file).t # "obj"
    \/ /\ "engines" \in Keys(Parsed(file).m)
       /\ Get(Parsed(file).m, "engines").t # "obj"

\* C11: update_package_json fails on a manifest that is not JSON or whose
\* top level or engines value is not an object; a failed call returns
\* (False, None, None) and leaves the content of the manifest file as it
\* was.
C11_FailedPatchLeavesManifest ==
    \A i \in 1..Len(pjCalls) :
        /\ Unpatchable(pjCalls[i].before) => ~pjCalls[i].ok
        /\ ~pjCalls[i].ok =>
              /\ pjCalls[i].original = None
              /\ pjCalls[i].new = None
              /\ pjCalls[i].after = pjCalls[i].before

C11_FailedOnEnginesString ==
    \E i \in 1..Len(pjCalls) :
        /\ ~pjCalls[i].ok
        /\ pjCalls[i].before.ok
        /\ Parsed(pjCalls[i].before).t = "obj"
        /\ Get(Parsed(pjCalls[i].before).m, "engines").t = "str"

\* the file is a valid ZIP, plain or inside a gzip stream, none of whose
\* entries is named package.json
NoManifestIn(file) ==
    /\ file.gz \in {"no", "ok"}
    /\ IsZip(Gunzip(file))
    /\ find_package_json(ExtractAll(file.entries)) = "None"

\* C12: after process_vsix_file or process_extension has processed, without
\* an I/O error, a valid archive that holds no package.json, the failure
\* ledger holds the one line "<archive-file-name>: No package.json found",
\* the success ledger is empty and the archive's bytes are unchanged.
C12_NoManifestRecorded ==
    (script \in {"fix", "upd"} /\ Done /\ faults = 0 /\ NoManifestIn(archive0)) =>
        /\ failedLog = << FailureLine(extension_name, "No package.json found") >>
        /\ successLog = << >>
        /\ archive = archive0

\* every strategy of process_extension has run and returned failure
AllMethodsFailed ==
    /\ Len(attempts) = Len(methods)
    /\ \A i \in 1..Len(attempts) : attempts[i].ok = "False"

\* C13: when all four strategies have failed, process_extension returns
\* False, has appended exactly one line, for this archive, to the failure
\* ledger and none to the success ledger, and has incremented failed_fixes,
\* not successful_fixes, by one.
C13_ExhaustedOutcome ==
    (script = "fix" /\ Done /\ AllMethodsFailed) =>
        /\ ret = "False"
        /\ Len(failedLog) = 1
        /\ failedLog[1].name = extension_name
        /\ successLog = << >>
        /\ counters.failed_fixes = ZeroCounters.failed_fixes + 1
        /\ counters.successful_fixes = ZeroCounters.successful_fixes

C13_ExhaustedOnPatchableArchive ==
    /\ script = "fix" /\ Done /\ AllMethodsFailed
    /\ IsZip(archive0)
    /\ find_package_json(ExtractAll(archive0.entries)) # "None"
    /\ ~Unpatchable(ExtractAll(archive0.entries)[find_package_json(ExtractAll(archive0.entries))])
    /\ counters.failed_fixes = 1

\* C14 (as claimed): every success-ledger line of process_extension and of
\* process_vsix_file reads "<archive-file-name>: <old-value> -> <new-value>
\* (using <strategy-name>)" and names the strategy that succeeded.
C14_SuccessLineNamesStrategy ==
    script \in {"fix", "upd"} =>
        \A j \in 1..Len(successLog) :
            /\ successLog[j].name = extension_name
            /\ successLog[j].new = Str(TargetVersion)
            /\ \E i \in 1..Len(methods) : successLog[j].method = methods[i]

\* C14 (amended): a success-ledger line of process_extension reads
\* "<archive-file-name>: <old-value> -> <new-value> (using <strategy-name>)"
\* and names the strategy that succeeded; a success-ledger line of
\* process_vsix_file reads "<archive-file-name>: <old-value> -> <new-value>"
\* and names no strategy.  In both, the old value is the one the patch
\* returned and the new value is the target.
C14_SuccessLineForm ==
    script \in {"fix", "upd"} =>
        \A j \in 1..Len(successLog) :
            /\ successLog[j].name = extension_name
            /\ successLog[j].original = original
            /\ successLog[j].new = Str(TargetVersion)
            /\ script = "fix" =>
                  /\ attempts[mi].ok = "True"
                  /\ successLog[j].method = methods[mi]
            /\ script = "upd" => successLog[j].method = "none"

C14_UpdLineWithoutStrategy ==
    /\ script = "upd" /\ Done
    /\ Len(successLog) = 1
    /\ successLog[1].original = Str("^1.0.0")
    /\ successLog[1].method = "none"

\* C15: process_vsix_file and process_extension never raise to their
\* caller, and the batch loop calls the processing function once for every
\* archive of the selected list, in list order, whatever the earlier calls
\* returned: the calls made are always the positions 1, 2, ... and, when the
\* batch has ended, all of them.
C15_BatchNeverAborted ==
    /\ ret # "raised"
    /\ script \in BatchScripts =>
          /\ calls = [i \in 1..Len(calls) |-> i]
          /\ pc \in {"bx_exit", "bx_aborted"} =>
                calls = [i \in 1..Len(vsix_files) |-> i]

\* the strategy is about to run an external tool that is not installed, or
\* unzip on a file it cannot read
ToolUnavailable ==
    \/ pc \in {"uz_unzip", "vs_unzip"} /\ ("unzip" \notin tools \/ ~UnzipReads(archive))
    \/ pc \in {"uz_zip", "vs_zip"} /\ "zip" \notin tools
    \/ pc = "vs_ls" /\ "vsce" \notin tools

\* the step is zip exiting with a non-zero code
ZipExitsNonZero == pc \in {"uz_zip", "vs_zip"} /\ faults' = faults + 1

\* C16: when unzip, zip or vsce is missing or exits with a non-zero code,
\* the strategy that ran it returns (False, None, None) without raising and
\* has not written to the archive, and process_extension then tries the
\* next strategy (or, after the last one, records the archive as failed).
C16_ToolFailureIsStrategyFailure ==
    /\ [][(ToolUnavailable \/ ZipExitsNonZero) =>
            /\ pc' = "fx_ret" /\ ~success' /\ original' = None
            /\ ret' # "raised"
            /\ ~wrote /\ archive' = archive]_vars
    /\ [][(pc \in {"vs_probe", "vs_ls"}) =>
            /\ pc' \in {pc, "vs_ls", "vs_unzip", "fx_ret"}
            /\ pc' = "fx_ret" => (~success' /\ original' = None)
            /\ ~wrote /\ archive' = archive]_vars
    /\ [][(pc = "fx_ret" /\ ~success) =>
            /\ mi < Len(methods) => (pc' = "fx_try" /\ mi' = mi + 1)
            /\ mi = Len(methods) => pc' = "fx_exhausted"]_vars

C16_NextStrategyAfterMissingZip ==
    /\ script = "fix" /\ Done
    /\ "unzip" \in tools /\ "zip" \notin tools
    /\ Len(attempts) = Len(methods)
    /\ cwd = "extraction_dir"
    /\ archive = archive0

\* the container kind the running code has given the archive, once it has:
\* process_vsix_file when extraction is over, extract_vsix when it returned
ClassifiedAs ==
    CASE script = "upd" /\ pc = "vx_find" ->
             IF is_gzipped THEN "GzipWrappedZip" ELSE "PlainZip"
      [] script = "upd" /\ pc = "vx_noextract" -> "Unknown"
      [] script = "extract" /\ pc = "done" ->
             IF is_gzipped THEN "GzipWrappedZip"
             ELSE IF ret = "True" THEN "PlainZip" ELSE "Unknown"
      [] OTHER -> "pending"

\* the file does not start with the gzip magic number and is no ZIP
GarbageWithoutMagic(file) ==
    file.gz = "no" /\ file.body \in {"trunc", "garbage"}

NeitherParses(file) ==
    \/ file.gz = "bad"
    \/ Gunzip(file).body \in {"trunc", "garbage"}

PatchedTree(tree) ==
    LET m == find_package_json(tree)
    IN  IF m # "None" /\ update_package_json(tree[m], TargetVersion).ok
        THEN [ok |-> TRUE,
              tree |-> WithFile(tree, m,
                           update_package_json(tree[m], TargetVersion).file)]
        ELSE [ok |-> FALSE, tree |-> tree]

\* what one invocation leaves at the archive's path and returns when it is
\* the only one running, no external tool is installed and no I/O error is
\* raised
Alone(kind, file) ==
    LET readable == IF kind = "upd"
                    THEN (file.gz = "ok" /\ IsZip(Gunzip(file))) \/ IsZip(file)
                    ELSE IsZip(file)
        patched == PatchedTree(ExtractAll(file.entries))
    IN  IF readable /\ patched.ok
        THEN [vsix |-> OutputFile(kind = "upd" /\ file.gz = "ok", Zip(patched.tree)),
              ret |-> "True"]
        ELSE [vsix |-> file, ret |-> "False"]

\* C19: two invocations that run concurrently in two processes on two
\* archive paths hold disjoint sets of temporary directories, all of them
\* existing, and each leaves at its archive's path and returns what the
\* same invocation leaves and returns when it runs alone.
C19_ConcurrentRunsIndependent ==
    /\ script = "par" =>
          /\ \A p, q \in Procs :
                p # q => Range(procs[p].dirs) \cap Range(procs[q].dirs) = {}
          /\ \A p \in Procs :
                /\ Range(procs[p].dirs) \subseteq DOMAIN tmpfs
                /\ procs[p].pc = "done" =>
                      [vsix |-> procs[p].vsix, ret |-> procs[p].ret]
                          = Alone(procs[p].kind, procs[p].vsix0)
    /\ (script \in {"fix", "upd"} /\ Done /\ faults = 0 /\ tools = {}) =>
          [vsix |-> archive, ret |-> ret] = Alone(script, archive0)

C19_BothPatchedSideBySide ==
    /\ script = "par"
    /\ \A p \in Procs :
          /\ procs[p].pc = "done" /\ procs[p].ret = "True"
          /\ procs[p].vsix # procs[p].vsix0
    /\ procs[1].kind = "upd" /\ procs[2].kind = "upd"
    /\ procs[1].vsix0 # procs[2].vsix0

\* the ranks that have computed their list
Distributed == { rank \in DOMAIN procs : procs[rank].pc = "done" }

\* C20: the lists distribute_extensions gives the ranks hold no archive
\* twice, are pairwise disjoint, differ in length by at most one and, once
\* every rank has its list, hold every archive of the list between them.
C20_RanksPartitionList ==
    script = "mpi" =>
        /\ \A r \in Distributed :
              Cardinality(Range(procs[r].extensions)) = Len(procs[r].extensions)
        /\ \A r, q \in Distributed :
              /\ r # q => Range(procs[r].extensions) \cap Range(procs[q].extensions) = {}
              /\ Len(procs[r].extensions) - Len(procs[q].extensions) \in {-1, 0, 1}
        /\ Distributed = DOMAIN procs =>
              UNION { Range(procs[r].extensions) : r \in DOMAIN procs }
                  = Range(vsix_files)

C20_UnevenSplit ==
    /\ script = "mpi"
    /\ Distributed = DOMAIN procs
    /\ Cardinality(DOMAIN procs) > 1
    /\ Len(vsix_files) % Cardinality(DOMAIN procs) # 0
    /\ Len(vsix_files) > Cardinality(DOMAIN procs)

\* the scripts that repackage archives, one archive or a batch
Pipelines == { "fix", "upd", "fixes", "updates" }

\* the entry name is a path below the extraction root of the archive being
\* processed: the name one of the input's entries has once extracted
BelowExtractionRoot(n) == n \in DOMAIN ExtractAll(archive0.entries)

\* C21: every entry name of an archive the repackagers have written, at the
\* archive's path or under the temporary output directory, is the path a
\* file of the input has below the extraction root; none is an absolute
\* path, none has a parent-traversal segment.
C21_EntryNamesRelative ==
    script \in Pipelines =>
        \A out \in { archive, tmpFile } :
            out # archive0 =>
                \A n \in DOMAIN out.entries :
                    /\ BelowExtractionRoot(n)
                    /\ n # AbsoluteName
                    /\ n # TraversalName

C21_TraversalInputRepackaged ==
    /\ script = "upd" /\ Done /\ ret = "True"
    /\ { TraversalName, AbsoluteName } \subseteq DOMAIN archive0.entries
    /\ { "evil.js", "abs.js" } \subseteq DOMAIN archive.entries

\* the files of the tree that are named package.json
ManifestsOf(tree) == { n \in DOMAIN tree : BaseName(n) = ManifestName }

\* the place of a file in the walk of its tree
WalkIndex(n) == CHOOSE i \in 1..Len(WalkOrder) : WalkOrder[i] = n

\* C22: find_package_json returns None exactly when the tree holds no file
\* named package.json, and otherwise the one such file the walk meets
\* first, the same on every call; the pipeline patches that file only: a
\* patch changes no other file of the extracted tree, and every other
\* manifest of an archive the pipeline has written has the content it had in
\* the input.
C22_FirstManifestOnly ==
    /\ [](script \in Pipelines =>
            LET m == find_package_json(extraction)
            IN  /\ m = "None" <=> ManifestsOf(extraction) = {}
                /\ m # "None" =>
                      /\ m \in ManifestsOf(extraction)
                      /\ \A n \in ManifestsOf(extraction) : WalkIndex(m) <= WalkIndex(n)
                /\ (package_json_path # "None" /\ extraction # EmptyTree) =>
                      package_json_path = m)
    /\ [][(script \in Pipelines /\ extraction # EmptyTree /\ extraction' # EmptyTree) =>
             \A n \in DOMAIN extraction :
                 extraction'[n] # extraction[n] =>
                     (n = find_package_json(extraction) /\ n = package_json_path)]_vars
    /\ [](script \in Pipelines =>
            \A out \in { archive, tmpFile } :
                \A n \in ManifestsOf(out.entries) :
                    LET in == ExtractAll(archive0.entries)
                    IN  (out # archive0 /\ n # find_package_json(in)) =>
                            out.entries[n] = in[n])

C22_NestedManifestKept ==
    /\ script = "fix" /\ Done /\ ret = "True"
    /\ { ManifestName, NestedManifest } \subseteq DOMAIN archive0.entries
    /\ archive0.entries[NestedManifest] # Blob
    /\ archive.entries[NestedManifest] = archive0.entries[NestedManifest]
    /\ archive.entries[ManifestName] # archive0.entries[ManifestName]

\* no call of the processing function is running: each one made has ended,
\* by a return or a raise
NoCallRunning ==
    pc \in {"mn_start", "mn_prompt", "mn_exit", "bx_start", "bx_loop", "bx_exit",
            "bx_aborted", "done"}

\* calls of the processing function made so far
CallsMade == IF script \in BatchScripts THEN bi ELSE 1

UpdatesCounted ==
    counters.successful_updates + counters.failed_updates
        + counters.skipped_extensions

\* the batch has printed its summary
AtSummary == script \in BatchScripts /\ pc = "bx_exit" /\ Len(vsix_files) > 0

\* C23: in fix_github_extensions, processed_extensions = successful_fixes +
\* failed_fixes at all times, processed_extensions never exceeds
\* total_extensions, every call of process_extension has added one to it
\* when it has ended, and it equals total_extensions at the summary; in
\* update_vsix_engine, every call of process_vsix_file has added one to
\* exactly one of successful_updates, failed_updates and skipped_extensions
\* when it has ended, so their sum is the number of calls made and equals
\* total_extensions at the summary.
C23_CountersConsistent ==
    /\ script \in {"fix", "fixes"} =>
          /\ counters.processed_extensions
                = counters.successful_fixes + counters.failed_fixes
          /\ counters.processed_extensions <= counters.total_extensions
          /\ NoCallRunning => counters.processed_extensions = CallsMade
          /\ AtSummary => counters.processed_extensions = counters.total_extensions
    /\ script \in {"upd", "updates"} =>
          /\ UpdatesCounted <= CallsMade
          /\ UpdatesCounted <= counters.total_extensions
          /\ NoCallRunning => UpdatesCounted = CallsMade
          /\ AtSummary => UpdatesCounted = counters.total_extensions

\* the same for the calls that returned
C23_CountersConsistentOnReturn ==
    ret # "raised" => C23_CountersConsistent

\* process_extension has ended in one of its two outcomes
Succeeded ==
    /\ ret = "True"
    /\ attempts[Len(attempts)].ok = "True"
    /\ Len(successLog) = counters.successful_fixes
Exhausted == ret = "False" /\ AllMethodsFailed

C25_CwdUnchanged ==
    script \in {"fix", "fixes"} => cwd = "start"

\* the lines of a ledger that are keyed by the archive file name
LinesOf(ledger, name) == { j \in 1..Len(ledger) : ledger[j].name = name }

\* C26: no archive ever has more than one line across the two ledgers;
\* when the call of the processing function for an archive has ended the
\* archive has exactly one line, in the success ledger if and only if the
\* call returned True, and the ledgers hold one line for every call made.
C26_ExactlyOneLine ==
    script \in Pipelines =>
        /\ Lines <= CallsMade
        /\ Cardinality(LinesOf(successLog, extension_name))
              + Cardinality(LinesOf(failedLog, extension_name)) <= 1
        /\ NoCallRunning => Lines = CallsMade
        /\ pc = "done" =>
              /\ Cardinality(LinesOf(successLog, extension_name))
                    + Cardinality(LinesOf(failedLog, extension_name)) = 1
              /\ ret = "True" <=> LinesOf(successLog, extension_name) # {}

\* the same for the calls that returned
C26_ExactlyOneLineOnReturn ==
    ret # "raised" => C26_ExactlyOneLine

\* engines.vscode of the manifest the archive had when processing started;
\* None when the field is absent
InputEngine ==
    LET in == ExtractAll(archive0.entries)
        m == find_package_json(in)
    IN  IF m # "None" /\ in[m].ok /\ ~Raises(Parsed(in[m]))
        THEN OriginalVersion(Parsed(in[m]))
        ELSE None

\* C27: the old value in the success-ledger line of an archive processed by
\* process_extension is the engines.vscode value the archive's manifest had
\* before process_extension started (None when absent), whichever strategy
\* succeeded and whatever the strategies before it did.
C27_OldValueIsInputValue ==
    script \in {"fix", "fixes"} =>
        \A j \in LinesOf(successLog, extension_name) :
            successLog[j].original = InputEngine

\* the same when no I/O error was raised
C27_OldValueIsInputValueNoFault ==
    faults = 0 => C27_OldValueIsInputValue

\* the batch has started: main is past the backup check and has not exited
\* at it
Processing == pc \notin {"mn_start", "mn_prompt", "mn_exit"}

\* C28: without a backup directory update_vsix_engine.main never gets past
\* the check: it processes no archive and writes no ledger line; and
\* fix_github_extensions.main gets past it only when the operator has
\* answered y (in either case) at the prompt.  So a call of a processing
\* function, and with it every write to an archive, happens only with the
\* backup directory present or, in fix_github_extensions, after that answer.
C28_BackupPrecondition ==
    script \in BatchScripts =>
        /\ (script = "updates" /\ ~backup_exists) =>
              /\ ~Processing
              /\ calls = << >> /\ Lines = 0 /\ ~wrote
        /\ (script = "fixes" /\ ~backup_exists /\ Processing) =>
              response \in {"y", "Y"}
        /\ (calls # << >> \/ wrote \/ archive # archive0) =>
              \/ backup_exists
              \/ script = "fixes" /\ response \in {"y", "Y"}
        /\ backup_exists => response = ""

C28_OverwrittenAfterConfirmation ==
    /\ script = "fixes" /\ ~backup_exists
    /\ response = "Y"
    /\ pc = "bx_exit"
    /\ counters.successful_fixes >= 1
    /\ archive # archive0

\* try_github_specific_format is running
InGithubSpecific == pc \in {"gh_open", "gh_find", "gh_patch", "gh_rewrite", "gh_write"}

\* C29: try_github_specific_format opens the archive for writing only when
\* the archive is a ZIP it could read with an entry named exactly
\* extension.vsixmanifest, a manifest was found in the extracted tree and
\* update_package_json returned success; before that step it does not change
\* the archive, and whenever it ends without having reached it, it returns
\* (False, None, None) with the archive as it found it.
C29_GithubWritesOnlyWhenPatched ==
    /\ [][(InGithubSpecific /\ archive' # archive) =>
             /\ pc \in {"gh_rewrite", "gh_write"}
             /\ pc = "gh_rewrite" =>
                   /\ IsZip(archive)
                   /\ VsixManifestName \in DOMAIN archive.entries
                   /\ package_json_path \in ManifestsOf(extraction)
                   /\ success
                   /\ ~Unpatchable(ExtractAll(archive.entries)[package_json_path])]_vars
    /\ [][(pc \in {"gh_open", "gh_find", "gh_patch"} /\ pc' = "fx_ret") =>
             /\ ~success' /\ original' = None
             /\ archive' = archive /\ ~wrote']_vars
    /\ [](InGithubSpecific =>
             /\ pc \in {"gh_open", "gh_find", "gh_patch", "gh_rewrite"} => ~wrote
             /\ pc \in {"gh_find", "gh_patch", "gh_rewrite", "gh_write"} =>
                   VsixManifestName \in DOMAIN extraction)

C29_GithubHasWritten ==
    /\ script = "fix" /\ pc = "gh_write"
    /\ wrote
    /\ archive.entries # EmptyTree

\* a run in which no operation is done twice on the same bytes with two
\* results: the zip tool is absent, so nothing is repacked or copied, and
\* at most one write of an entry into a ZIP has failed; the strategies after
\* it read an archive that lacks that entry and never write it again
SameOperationSameResult == faults <= 1 /\ "zip" \notin tools

\* C30: in a run whose file-system and tool operations are deterministic,
\* no success-ledger line of process_extension names GitHub specific and no
\* attempt of that strategy returns success.
C30_GithubNeverWins ==
    (script \in {"fix", "fixes"} /\ SameOperationSameResult) =>
        /\ \A j \in 1..Len(successLog) : successLog[j].method # methods[Len(methods)]
        /\ \A i \in 1..Len(attempts) :
              attempts[i].method = methods[Len(methods)] => attempts[i].ok # "True"

\* the same when no I/O error was raised
C30_GithubNeverWinsNoFault ==
    (script \in {"fix", "fixes"} /\ faults = 0) =>
        \A j \in 1..Len(successLog) : successLog[j].method # methods[Len(methods)]

============================================================================
